---- MODULE Spec2Model ----
(***************************************************************************)
(* Code Execution Service of AggieCode: the container-backed executor      *)
(* (CodeExecutor.Execute) and the HTTP handler that calls it               *)
(* (executeHandler).  Every request is one flow; the flows share the       *)
(* execution semaphore and the lock that guards its acquisition.           *)
(* The package pkg (RateLimiter, Sanitizer, ExecutionService) has its own   *)
(* two specifications, LimiterSpec and ServiceSpec: no route of the        *)
(* service calls it.                                                       *)
(* CommandSpec follows the files, the command and the settings of one      *)
(* container under either executor of the repository, and TimerSpec one    *)
(* request under the executor of executor/executor.go.                     *)
(***************************************************************************)
EXTENDS Integers, Sequences, FiniteSets, TLC

\* ---------------------------------------------------------------- bounds
NumRequests == 2
MaxLimit == 2
MaxBurst == 2        \* the bursts a RateLimiter is made with: 1..MaxBurst
MaxExtra == 2        \* requests a client sends beyond its burst in one run
MaxCodeLen == 2      \* the maxCodeLength a Sanitizer is made with: 1..MaxCodeLen
NumCalls == 3        \* calls of the Limit handler that run at the same time

Requests == 1..NumRequests

\* ------------------------------------------------------------ the catalog
\* SupportedLanguages: the tags the executor maps to an image.
SupportedLanguages == {"python", "javascript", "cpp", "java", "go"}

\* LanguageCompilers: the tags whose non-zero exit is read as a build failure.
LanguageCompilers == {"cpp", "java", "go"}

\* The language tags the requests of the model carry: an interpreted one, a
\* compiled one and one outside the catalog.
Languages == {"python", "cpp", "rust"}

\* ----------------------------------------------------------------- state
VARIABLES
    concurrentLimit,     \* CodeExecutor.concurrentLimit: capacity of the semaphore
    executionSemaphore,  \* number of tokens buffered in the semaphore channel
    executionLock,       \* 0 when free, else the request that holds the mutex
    pc,                  \* position of each request flow
    lang,                \* req.Language ("" outside the handler's run)
    ctxErr,              \* Err() of the request's context (none, canceled, deadline),
                         \* kept while Execute still has a read of it ahead
    defers,              \* deferred calls of Execute, in registration order
    dir,                 \* whether the scratch directory of the request exists
    container,           \* the runtime's state of the request's container
    exitCode,            \* exit status of the container (-1 while it has none)
    oomKilled,           \* State.OOMKilled of the container
    waitCh,              \* what ContainerWait has delivered: empty, status, error
    refusedFull,         \* admission was refused while the semaphore was full
    timedOut,            \* the deadline elapsed while the container was running
    inspect,             \* what the post-wait ContainerInspect answered
    err,                 \* the error Execute returns ("nil" for none)
    resultError,         \* ExecutionResult.Error
    httpStatus,          \* status code written by executeHandler (0: none yet)
    errorType,           \* ExecuteResponse.ErrorType
    fallbackMode,        \* CodeExecutor.fallbackMode: Execute goes to the MockExecutor
    request,             \* the HTTP request executeHandler was called with
    invoked,             \* executeHandler called codeExecutor.Execute
    unknownTag,          \* the decoded language is outside SupportedLanguages
    gates,               \* the checks the request has passed, in order
    errorBody,           \* the text written by http.Error ("" when none)
    captured,            \* <<stdout, stderr>> as getContainerLogs read them
    resultLogs,          \* <<ExecutionResult.Stdout, ExecutionResult.Stderr>>
    resultErrorCode,     \* the exit status printed into ExecutionResult.Error
    respLogs,            \* <<ExecuteResponse.Stdout, ExecuteResponse.Stderr>>
    respError,           \* ExecuteResponse.Error
    respErrorCode,       \* the exit status printed into ExecuteResponse.Error
    errMessage,          \* err.Error() of a plain error Execute returns
    respErrorDetail,     \* the text of err printed into ExecuteResponse.Error
    resultExecTimeMs,    \* ExecutionResult.ExecTimeMs
    respExecTimeMs,      \* ExecuteResponse.ExecutionTimeMs
    respContentType,     \* the Content-Type header of the response
    burst,               \* RateLimiter.burst
    visitors,            \* RateLimiter.visitors: the tokens of each client's limiter
    streak,              \* what Limit did with each request of a client since
                         \* the client's bucket was last full
    backToBack,          \* no token was refilled during the client's streak
    maxCodeLength,       \* Sanitizer.maxCodeLength
    sanitized,           \* the last call of SanitizeCode and what it returned
    handled,             \* the last call of HandleExecute and what it did
    validated,           \* the last call of validateRequest and what it returned
    environ,             \* the environment of the process and the state of the
                         \* container runtime when main starts
    startup,             \* how far main is: no, serving, exit1
    configDefaultTimeout,\* ExecutorConfig.DefaultTimeout as main passes it
    jsonTimeout,         \* the timeout field of the request body
    execTimeout,         \* ExecutionRequest.Timeout as executeHandler passes it
    deadline,            \* the duration Execute gives context.WithTimeout
    calls,               \* each running call of the Limit handler: its position,
                         \* its r.RemoteAddr and the limiter getVisitor gave it
    orphans,             \* tokens of the limiters deleted from visitors that a
                         \* call still points to (-1: no such limiter)
    admits,              \* requests of each client passed to next since one of
                         \* its limiters last earned a token
    command,             \* one execution's build (which executor the binary
                         \* has), jsonReq (the decoded body), execReq (what the
                         \* handler gives Execute), scratch (names of the files
                         \* in the scratch directory), stdinFile (a path, <<>>
                         \* for ""), cmd (container.Config.Cmd) and hostConfig
    timer                \* one request under NewExecutor's executor: lang, pc,
                         \* ctx (Err() of the handler's ctx), clock (early,
                         \* ctxDue, timerDue), container, exit, wait (what
                         \* ContainerWait has delivered), err (of Execute),
                         \* defers (last registered first), dir and status

\* The variables of the executor and of executeHandler.
execVars == <<concurrentLimit, executionSemaphore, executionLock, pc, lang, ctxErr,
          defers, dir, container, exitCode, oomKilled, waitCh, refusedFull,
          timedOut, inspect, err, resultError, httpStatus, errorType,
          fallbackMode, request, invoked, unknownTag, gates, errorBody,
          captured, resultLogs, resultErrorCode, respLogs, respError,
          respErrorCode, errMessage, respErrorDetail, resultExecTimeMs,
          respExecTimeMs, respContentType>>

\* The variables of a RateLimiter and of an ExecutionService with its
\* Sanitizer.
limiterVars == <<burst, visitors, streak, backToBack>>
sweepVars == <<calls, orphans, admits>>
serviceVars == <<maxCodeLength, sanitized, handled, validated>>
pkgVars == <<limiterVars, sweepVars, serviceVars>>

\* The variables of main's start-up and of the timeout of one request.
timeVars == <<environ, startup, configDefaultTimeout, jsonTimeout, execTimeout,
              deadline>>

\* The variables of the two executors followed one execution at a time.
variantVars == <<command, timer>>

vars == <<execVars, pkgVars, timeVars, variantVars>>

\* The variables of the container runtime and of the host file system.
sandboxVars == <<dir, container, exitCode, oomKilled, waitCh>>

\* What Execute hands back and what the handler writes.
outVars == <<err, errMessage, resultError, httpStatus, errorType>>

\* The executor's mode, the request as it came in and what executeHandler
\* made of it before calling Execute.
inVars == <<fallbackMode, request, invoked, unknownTag, errorBody>>

\* The captured streams and the fields of ExecutionResult built from them.
resultVars == <<captured, resultLogs, resultErrorCode, resultExecTimeMs>>

\* The fields of ExecuteResponse beside the status and the error type, and
\* the content type the body is sent with.
respVars == <<respLogs, respError, respErrorCode, respErrorDetail,
              respExecTimeMs, respContentType>>

\* ------------------------------------------------------------ the request
\* A field of the JSON body: <<>> when the body does not have it, else <<v>>.
\* The code values are one that prints, one that raises and the empty string.
CodeFields == {<<>>, <<"">>, <<"print(1)">>, <<"raise Exception()">>}
LanguageFields == {<<>>, <<"">>} \cup {<<l>> : l \in Languages}

\* The body of a request: syntaxOk is whether it is JSON of the types
\* ExecuteRequest wants, unknownField whether it has a field ExecuteRequest
\* does not have.
Body(ok, extra, code, language) ==
    [syntaxOk |-> ok, unknownField |-> extra, code |-> code, language |-> language]

\* The bodies sent as application/json by POST: one that does not decode,
\* two with an unknown field, and every pair of code and language.
Bodies ==
    {Body(FALSE, FALSE, <<>>, <<>>), Body(TRUE, TRUE, <<>>, <<>>),
     Body(TRUE, TRUE, <<"print(1)">>, <<"python">>)}
    \cup {Body(TRUE, FALSE, c, l) : c \in CodeFields, l \in LanguageFields}

\* The bodies sent with another method or content type: one that does not
\* decode, one with an unknown field, one without code and a complete one.
OtherBodies ==
    {Body(FALSE, FALSE, <<>>, <<>>),
     Body(TRUE, TRUE, <<"print(1)">>, <<"python">>),
     Body(TRUE, FALSE, <<>>, <<"python">>),
     Body(TRUE, FALSE, <<"print(1)">>, <<"python">>)}

\* The requests the clients send.
RequestSpace ==
    LET Request(m, t, b) ==
            [method |-> m, contentType |-> t, syntaxOk |-> b.syntaxOk,
             unknownField |-> b.unknownField, code |-> b.code,
             language |-> b.language]
    IN  {Request("POST", "application/json", b) : b \in Bodies}
        \cup {Request("POST", t, b) :
                 t \in {"application/json; charset=utf-8", "text/plain"},
                 b \in OtherBodies}
        \cup {Request("GET", t, b) :
                 t \in {"application/json", "text/plain"}, b \in OtherBodies}

\* No request: the handler is not running, or has read what it needs.
NoRequest ==
    [method |-> "", contentType |-> "", syntaxOk |-> FALSE,
     unknownField |-> FALSE, code |-> <<>>, language |-> <<>>]

\* No output: the zero value of the stdout and stderr fields.
NoLogs == <<"", "">>

\* No message: Execute returned no plain error.  A message is the sequence
\* of its parts.
NoMessage == <<>>

\* ------------------------------------------------------- the package pkg
\* NewExecutionService: NewRateLimiter(100, 10) and NewSanitizer(1000).
DefaultBurst == 10
DefaultMaxCodeLength == 1000

\* The clients of a RateLimiter, by their r.RemoteAddr.
Clients == {"10.0.0.1:40000", "10.0.0.2:40000"}

\* The calls of the handler Limit returns that can run at the same time.
Calls == 1..NumCalls

\* A call of the handler that has not begun.  limiter is what getVisitor
\* returned: 0 for the limiter the visitors map holds for ip, else the
\* place in orphans of a limiter the map no longer holds.
NoLimitCall == [pc |-> "idle", ip |-> "", limiter |-> 0]

\* NewRateLimiter(requestsPerMinute, b): no visitor yet, and no call.
NewRateLimiter(b) ==
    /\ burst = b
    /\ visitors = << >>
    /\ streak = [c \in Clients |-> <<>>]
    /\ backToBack = [c \in Clients |-> TRUE]
    /\ calls = [h \in Calls |-> NoLimitCall]
    /\ orphans = [k \in Calls |-> -1]
    /\ admits = [c \in Clients |-> 0]

\* No call: the value of sanitized and of handled before the first call.
NoCode == [length |-> 0, system |-> FALSE, imports |-> "none", restricted |-> FALSE]
NoSanitizeCall == [called |-> FALSE, code |-> NoCode, language |-> "", error |-> ""]
NoHandleCall ==
    [called |-> FALSE, decodes |-> FALSE, code |-> NoCode, language |-> "",
     method |-> "", status |-> 0, json |-> FALSE, output |-> "", error |-> "",
     statusMessage |-> "", executed |-> FALSE]
NoValidateCall ==
    [called |-> FALSE, code |-> NoCode, language |-> "", method |-> "",
     error |-> ""]

\* NewSanitizer(m), in an ExecutionService that has handled nothing yet.
NewSanitizer(m) ==
    /\ maxCodeLength = m
    /\ sanitized = NoSanitizeCall
    /\ handled = NoHandleCall
    /\ validated = NoValidateCall

\* ------------------------------------------------ durations and start-up
\* An int64 (int, time.Duration) as its eight bytes, least significant
\* first, in two's complement; Int64(n) for 0 <= n < 2^31.
Int64(n) ==
    [i \in 1..8 |-> IF i <= 4 THEN (n \div (256 ^ (i - 1))) % 256 ELSE 0]

\* The int64 -1.
MinusOne64 == [i \in 1..8 |-> 255]

\* a + b and a * b in int64: the low 64 bits of the result.
RECURSIVE AddCarry(_, _, _)
AddCarry(a, b, k) ==
    IF k = 0 THEN 0 ELSE (a[k] + b[k] + AddCarry(a, b, k - 1)) \div 256

Add64(a, b) == [k \in 1..8 |-> (a[k] + b[k] + AddCarry(a, b, k - 1)) % 256]

RECURSIVE MulColumn(_, _, _, _)
MulColumn(a, b, k, i) ==
    IF i > k THEN 0 ELSE a[i] * b[k + 1 - i] + MulColumn(a, b, k, i + 1)

RECURSIVE MulCarry(_, _, _)
MulCarry(a, b, k) ==
    IF k = 0 THEN 0
    ELSE (MulColumn(a, b, k, 1) + MulCarry(a, b, k - 1)) \div 256

Mul64(a, b) ==
    [k \in 1..8 |-> (MulColumn(a, b, k, 1) + MulCarry(a, b, k - 1)) % 256]

\* a < b and a > 0 on int64.
RECURSIVE LessFrom(_, _, _)
LessFrom(a, b, i) ==
    IF i = 0 THEN FALSE
    ELSE IF a[i] # b[i] THEN a[i] < b[i]
    ELSE LessFrom(a, b, i - 1)

Less64(a, b) ==
    IF (a[8] >= 128) # (b[8] >= 128) THEN a[8] >= 128 ELSE LessFrom(a, b, 8)

Positive64(a) == Less64(Int64(0), a)

\* time.Second, and time.Duration(n) * time.Second.
Second == Int64(1000000000)
Seconds(n) == Mul64(n, Second)

\* DefaultExecutionTime and MaxExecutionTime, in seconds and as durations.
DefaultExecutionSeconds == 10
MaxExecutionSeconds == 30
DefaultExecutionTime == Seconds(Int64(DefaultExecutionSeconds))
MaxExecutionTime == Seconds(Int64(MaxExecutionSeconds))

\* DefaultConcurrentLimit.
DefaultConcurrentLimit == 10

\* No duration: Execute was not called, or applies no deadline.
NoDuration == <<>>

\* The decimal digits; a string of the environment is a sequence of
\* characters.
DigitChars == <<"0", "1", "2", "3", "4", "5", "6", "7", "8", "9">>
DigitOf(c) == CHOOSE d \in 0..9 : DigitChars[d + 1] = c
IsDigit(c) == \E d \in 0..9 : DigitChars[d + 1] = c

\* strconv.Atoi on the strings of the model (short enough to be in range),
\* as <<ok, value>>: an optional sign and one or more digits.
RECURSIVE AtoiDigits(_, _)
AtoiDigits(str, acc) ==
    IF str = <<>> THEN acc
    ELSE AtoiDigits(Tail(str), 10 * acc + DigitOf(Head(str)))

Atoi(str) ==
    LET signed == str # <<>> /\ Head(str) \in {"+", "-"}
        digits == IF signed THEN Tail(str) ELSE str
    IN  IF digits = <<>> \/ \E i \in 1..Len(digits) : ~IsDigit(digits[i])
        THEN <<FALSE, 0>>
        ELSE <<TRUE, IF signed /\ Head(str) = "-"
                     THEN 0 - AtoiDigits(digits, 0)
                     ELSE AtoiDigits(digits, 0)>>

\* getConcurrentLimitFromEnv on the value of CONCURRENT_LIMIT.
GetConcurrentLimitFromEnv(limitStr) ==
    IF limitStr = <<>> THEN DefaultConcurrentLimit
    ELSE IF ~Atoi(limitStr)[1] \/ Atoi(limitStr)[2] <= 0
    THEN DefaultConcurrentLimit
    ELSE Atoi(limitStr)[2]

\* getDefaultTimeoutFromEnv on the value of DEFAULT_TIMEOUT.
GetDefaultTimeoutFromEnv(timeoutStr) ==
    IF timeoutStr = <<>> THEN DefaultExecutionTime
    ELSE IF ~Atoi(timeoutStr)[1] \/ Atoi(timeoutStr)[2] <= 0
            \/ Atoi(timeoutStr)[2] > 30
    THEN DefaultExecutionTime
    ELSE Seconds(Int64(Atoi(timeoutStr)[2]))

\* An ExecutorConfig, as main builds it from the environment.
ExecutorConfig(e) ==
    [ConcurrentLimit |-> GetConcurrentLimitFromEnv(e.CONCURRENT_LIMIT),
     DefaultTimeout |-> GetDefaultTimeoutFromEnv(e.DEFAULT_TIMEOUT)]

\* NewExecutorWithConfig: the executor it returns and its error.  docker is
\* "up", "noClient" (client.NewClientWithOpts fails) or "noPing" (Ping
\* fails).  The DefaultTimeout of the config goes into no field of the
\* executor.
NewExecutorWithConfig(config, docker) ==
    [concurrentLimit |-> IF config.ConcurrentLimit <= 0
                         THEN DefaultConcurrentLimit
                         ELSE config.ConcurrentLimit,
     fallbackMode |-> docker # "up",
     err |-> "nil"]

\* The ExecutionRequest before the handler has built it.
NoExecReq == [Language |-> "", Stdin |-> ""]

\* No execution is followed for its files, command and settings.
NoCommand == command = [build |-> ""]

\* No request is followed under NewExecutor's executor.
NoTimedRun == timer = [pc |-> "idle"]

\* main has started the service with the executor as it is, and the
\* timeout of no request is followed.
Serving ==
    /\ environ = [DEFAULT_TIMEOUT |-> <<>>,
                  CONCURRENT_LIMIT |-> <<DigitChars[concurrentLimit + 1]>>,
                  docker |-> IF fallbackMode THEN "noPing" ELSE "up"]
    /\ startup = "serving"
    /\ configDefaultTimeout = DefaultExecutionTime
    /\ jsonTimeout = <<>>
    /\ execTimeout = NoDuration
    /\ deadline = NoDuration

\* No request has arrived at executeHandler and the semaphore is empty.
NoRequests ==
    /\ executionSemaphore = 0
    /\ executionLock = 0
    /\ pc = [r \in Requests |-> "idle"]
    /\ lang = [r \in Requests |-> ""]
    /\ ctxErr = [r \in Requests |-> "none"]
    /\ defers = [r \in Requests |-> <<>>]
    /\ dir = [r \in Requests |-> FALSE]
    /\ container = [r \in Requests |-> "none"]
    /\ exitCode = [r \in Requests |-> -1]
    /\ oomKilled = [r \in Requests |-> FALSE]
    /\ waitCh = [r \in Requests |-> "empty"]
    /\ refusedFull = [r \in Requests |-> FALSE]
    /\ timedOut = [r \in Requests |-> FALSE]
    /\ inspect = [r \in Requests |-> "none"]
    /\ err = [r \in Requests |-> "nil"]
    /\ resultError = [r \in Requests |-> ""]
    /\ httpStatus = [r \in Requests |-> 0]
    /\ errorType = [r \in Requests |-> ""]
    /\ request = [r \in Requests |-> NoRequest]
    /\ invoked = [r \in Requests |-> FALSE]
    /\ unknownTag = [r \in Requests |-> FALSE]
    /\ gates = [r \in Requests |-> <<>>]
    /\ errorBody = [r \in Requests |-> ""]
    /\ captured = [r \in Requests |-> NoLogs]
    /\ resultLogs = [r \in Requests |-> NoLogs]
    /\ resultErrorCode = [r \in Requests |-> -1]
    /\ respLogs = [r \in Requests |-> NoLogs]
    /\ respError = [r \in Requests |-> ""]
    /\ respErrorCode = [r \in Requests |-> -1]
    /\ errMessage = [r \in Requests |-> NoMessage]
    /\ respErrorDetail = [r \in Requests |-> NoMessage]
    /\ resultExecTimeMs = [r \in Requests |-> 0]
    /\ respExecTimeMs = [r \in Requests |-> 0]
    /\ respContentType = [r \in Requests |-> ""]

\* NewExecutorWithConfig: the semaphore channel is made with the configured
\* capacity and is empty, and the executor is in fallback mode when the
\* container runtime could not be reached; no request has arrived.  The
\* package pkg stays as NewExecutionService makes it.
Init ==
    /\ concurrentLimit \in 1..MaxLimit
    /\ fallbackMode \in BOOLEAN
    /\ NoRequests
    /\ NoCommand
    /\ NoTimedRun
    /\ NewRateLimiter(DefaultBurst)
    /\ NewSanitizer(DefaultMaxCodeLength)
    /\ Serving

\* The server calls executeHandler with a request.
Arrive(r) ==
    /\ pc[r] = "idle"
    /\ \E q \in RequestSpace : request' = [request EXCEPT ![r] = q]
    /\ pc' = [pc EXCEPT ![r] = "handler"]
    /\ UNCHANGED <<concurrentLimit, executionSemaphore, executionLock, lang,
                   ctxErr, defers, refusedFull, timedOut, inspect>>
    /\ UNCHANGED sandboxVars
    /\ UNCHANGED outVars
    /\ UNCHANGED <<fallbackMode, invoked, unknownTag, errorBody, gates,
                   resultVars, respVars>>
    /\ UNCHANGED <<pkgVars, timeVars, variantVars>>

\* ------------------------------------------------------------- admission
\* e.executionLock.Lock(): the flow waits until the mutex is free.
Lock(r) ==
    /\ pc[r] = "lock"
    /\ executionLock = 0
    /\ executionLock' = r
    /\ pc' = [pc EXCEPT ![r] = "select"]
    /\ UNCHANGED <<concurrentLimit, executionSemaphore, lang, ctxErr, defers,
                   refusedFull, timedOut, inspect>>
    /\ UNCHANGED sandboxVars
    /\ UNCHANGED outVars
    /\ UNCHANGED <<inVars, gates, resultVars, respVars>>
    /\ UNCHANGED <<pkgVars, timeVars, variantVars>>

\* An admission select whose send proceeds whether or not the channel has room.
SelectCasesUncapped(tokens, limit, ctxDone) ==
    {"acquire"} \cup (IF ctxDone THEN {"ctxDone"} ELSE {})

\* An admission select without a default case: it waits for room.
SelectCasesBlocking(tokens, limit, ctxDone) ==
    (IF tokens < limit THEN {"acquire"} ELSE {})
    \cup (IF ctxDone THEN {"ctxDone"} ELSE {})

\* The cases of the admission select that can proceed: the send when the
\* channel has room, the receive from ctx.Done() when the context is done,
\* and the default case only when no other case can.
SelectCases(tokens, limit, ctxDone) ==
    LET ready == (IF tokens < limit THEN {"acquire"} ELSE {})
                 \cup (IF ctxDone THEN {"ctxDone"} ELSE {})
    IN  IF ready = {} THEN {"default"} ELSE ready

\* A return statement of Execute with error e: the deferred calls run next.
\* The locals that neither they nor the caller read (the language, the
\* context, the wait channels) leave the state here.
Return(r, e) ==
    /\ pc' = [pc EXCEPT ![r] = "return"]
    /\ err' = [err EXCEPT ![r] = e]
    /\ lang' = [lang EXCEPT ![r] = ""]
    /\ ctxErr' = [ctxErr EXCEPT ![r] = "none"]
    /\ waitCh' = [waitCh EXCEPT ![r] = "empty"]

\* err.Error() of the error a return statement hands back: the message of a
\* plain error, which fmt.Errorf builds from a fixed text and the error of
\* the call that failed; an ExecutionError is told by its Type.
Message(r, e, text, cause) ==
    errMessage' = [errMessage EXCEPT ![r] =
                     IF e = "generic" THEN <<text>> \o cause ELSE NoMessage]

\* The directory ioutil.TempDir("", "aggiecode-<language>-") names: the
\* system's temporary directory, the pattern and a random number, which is
\* the request's own here.
TempDirOf(language, r) == <<"/tmp/aggiecode-", language, "-", r>>

\* The *PathError of a file system call on the scratch directory.
PathError(op, language, r) ==
    <<op>> \o TempDirOf(language, r) \o <<": no space left on device">>

\* The error of a call the container runtime refuses.
DaemonError == <<"Error response from daemon">>

\* The error of a runtime call made under a context: the context's own error
\* when the context is done, else the runtime's.
CallError(ctx) ==
    IF ctx = "canceled" THEN <<"context canceled">>
    ELSE IF ctx = "deadline" THEN <<"context deadline exceeded">>
    ELSE DaemonError

\* time.Since(startTime).Milliseconds(): the time an execution measures, in
\* either executor.
ElapsedMs == {1200}

\* ------------------------------------------------------- the front of the
\* handler.  The value json.Decoder leaves in a string field of
\* ExecuteRequest: the zero value when the body does not have the field.
FieldValue(f) == IF f = <<>> THEN "" ELSE f[1]

\* decoder.Decode with DisallowUnknownFields, as <<decoded, Code, Language>>.
Decode(q) ==
    IF ~q.syntaxOk \/ q.unknownField
    THEN <<FALSE, "", "">>
    ELSE <<TRUE, FieldValue(q.code), FieldValue(q.language)>>

\* A handler that looks at the content type before the method.
RequestErrorContentTypeFirst(q) ==
    IF q.contentType # "application/json"
    THEN <<415, "Content-Type must be application/json">>
    ELSE IF q.method # "POST"
    THEN <<405, "Invalid request method">>
    ELSE IF ~Decode(q)[1]
    THEN <<400, "Invalid request body">>
    ELSE IF Decode(q)[2] = ""
    THEN <<400, "Missing 'code' field in request">>
    ELSE IF Decode(q)[3] = ""
    THEN <<400, "Missing 'language' field in request">>
    ELSE <<0, "">>

\* A handler that looks for the language before the code.
RequestErrorLanguageFirst(q) ==
    IF q.method # "POST"
    THEN <<405, "Invalid request method">>
    ELSE IF q.contentType # "application/json"
    THEN <<415, "Content-Type must be application/json">>
    ELSE IF ~Decode(q)[1]
    THEN <<400, "Invalid request body">>
    ELSE IF Decode(q)[3] = ""
    THEN <<400, "Missing 'language' field in request">>
    ELSE IF Decode(q)[2] = ""
    THEN <<400, "Missing 'code' field in request">>
    ELSE <<0, "">>

\* The http.Error call executeHandler makes for a request, as
\* <<status, text>>; <<0, "">> when it makes none and goes on to Execute.
RequestError(q) ==
    IF q.method # "POST"
    THEN <<405, "Invalid request method">>
    ELSE IF q.contentType # "application/json"
    THEN <<415, "Content-Type must be application/json">>
    ELSE IF ~Decode(q)[1]
    THEN <<400, "Invalid request body">>
    ELSE IF Decode(q)[2] = ""
    THEN <<400, "Missing 'code' field in request">>
    ELSE IF Decode(q)[3] = ""
    THEN <<400, "Missing 'language' field in request">>
    ELSE <<0, "">>

\* strings.Contains(code, "print") and strings.Contains(code, "error") ||
\* strings.Contains(code, "raise") on the code values of the model.
ContainsPrint(code) == code \in {"print(1)"}
ContainsErrorOrRaise(code) == code \in {"raise Exception()"}

\* MockExecutor.Execute: the result is made up from the language and the
\* code; a language it has no case for is a plain error.
MockExecute(language, code) ==
    IF language \notin {"python", "javascript", "cpp", "java", "go"}
    THEN [err |-> "generic", error |-> "", code |-> -1, logs |-> NoLogs,
          cause |-> <<language>>]
    ELSE IF language = "python" /\ ContainsPrint(code)
    THEN [err |-> "nil", error |-> "", code |-> -1,
          logs |-> <<"Python output", "">>, cause |-> <<>>]
    ELSE IF language = "python" /\ ContainsErrorOrRaise(code)
    THEN [err |-> "nil", error |-> "Process exited", code |-> 1,
          logs |-> <<"", "Python error: Simulated exception">>,
          cause |-> <<>>]
    ELSE [err |-> "nil", error |-> "", code |-> -1, logs |-> NoLogs,
          cause |-> <<>>]

\* executeHandler up to its call of Execute: the method, the content type,
\* the strict decoding and the two required fields, each answered by
\* http.Error when it fails, which sends the text as text/plain.  In fallback
\* mode Execute is the MockExecutor, which returns at once with the time it
\* measured unless it returns an error; else Execute first takes
\* executionLock.
Validate(r) ==
    /\ pc[r] = "handler"
    /\ request' = [request EXCEPT ![r] = NoRequest]
    /\ LET e == RequestError(request[r])
           language == Decode(request[r])[3]
           mock == MockExecute(language, Decode(request[r])[2])
       IN  IF e[1] # 0
           THEN /\ httpStatus' = [httpStatus EXCEPT ![r] = e[1]]
                /\ errorBody' = [errorBody EXCEPT ![r] = e[2]]
                /\ respContentType' = [respContentType EXCEPT ![r] =
                                          "text/plain; charset=utf-8"]
                /\ pc' = [pc EXCEPT ![r] = "done"]
                /\ UNCHANGED <<invoked, unknownTag, gates, lang, ctxErr,
                               waitCh, err, errMessage, resultError,
                               resultLogs, resultErrorCode, resultExecTimeMs>>
           ELSE /\ invoked' = [invoked EXCEPT ![r] = TRUE]
                /\ unknownTag' = [unknownTag EXCEPT ![r] =
                                    language \notin SupportedLanguages]
                /\ gates' = [gates EXCEPT ![r] = <<"validate">>]
                /\ UNCHANGED <<httpStatus, errorBody, respContentType>>
                /\ IF fallbackMode
                   THEN /\ Return(r, mock.err)
                        /\ Message(r, mock.err,
                                   "unsupported language in mock mode: ",
                                   mock.cause)
                        /\ \E ms \in (IF mock.err = "nil" THEN ElapsedMs
                                       ELSE {0}) :
                               resultExecTimeMs' =
                                   [resultExecTimeMs EXCEPT ![r] = ms]
                        /\ resultError' = [resultError EXCEPT ![r] = mock.error]
                        /\ resultErrorCode' =
                               [resultErrorCode EXCEPT ![r] = mock.code]
                        /\ resultLogs' = [resultLogs EXCEPT ![r] = mock.logs]
                   ELSE /\ lang' = [lang EXCEPT ![r] = language]
                        /\ pc' = [pc EXCEPT ![r] = "lock"]
                        /\ UNCHANGED <<ctxErr, waitCh, err, errMessage,
                                       resultError, resultLogs,
                                       resultErrorCode, resultExecTimeMs>>
    /\ UNCHANGED <<concurrentLimit, executionSemaphore, executionLock, defers,
                   refusedFull, timedOut, inspect, errorType, fallbackMode,
                   captured, dir, container, exitCode, oomKilled>>
    /\ UNCHANGED <<respLogs, respError, respErrorCode, respErrorDetail,
                   respExecTimeMs>>
    /\ UNCHANGED <<pkgVars, timeVars, variantVars>>

\* An admission select whose default case returns without Unlock.
LockAfterSelectKeptOnDefault(r, c) == IF c = "default" THEN r ELSE 0

\* executionLock after the case c of the admission select has run: each case
\* begins with e.executionLock.Unlock().
LockAfterSelect(r, c) == 0

\* The admission select and the Unlock that opens each of its branches.
Admit(r) ==
    /\ pc[r] = "select"
    /\ executionLock = r
    /\ \E c \in SelectCases(executionSemaphore, concurrentLimit, ctxErr[r] # "none") :
      /\ executionLock' = LockAfterSelect(r, c)
      /\
        \/ /\ c = "acquire"
           /\ executionSemaphore' = executionSemaphore + 1
           /\ defers' = [defers EXCEPT ![r] = <<"release">>]
           /\ gates' = [gates EXCEPT ![r] = Append(@, "semaphore")]
           /\ pc' = [pc EXCEPT ![r] = "provision"]
           /\ UNCHANGED <<err, errMessage, lang, ctxErr, waitCh, refusedFull>>
        \/ /\ c = "ctxDone"
           /\ Return(r, "timeout")
           /\ UNCHANGED errMessage
           /\ refusedFull' = [refusedFull EXCEPT ![r] =
                                (executionSemaphore = concurrentLimit)]
           /\ UNCHANGED <<executionSemaphore, defers, gates>>
        \/ /\ c = "default"
           /\ Return(r, "limit_exceeded")
           /\ UNCHANGED errMessage
           /\ refusedFull' = [refusedFull EXCEPT ![r] =
                                (executionSemaphore = concurrentLimit)]
           /\ UNCHANGED <<executionSemaphore, defers, gates>>
    /\ UNCHANGED <<concurrentLimit, timedOut, inspect, resultError, httpStatus,
                   errorType, dir, container, exitCode, oomKilled>>
    /\ UNCHANGED <<inVars, resultVars, respVars>>
    /\ UNCHANGED <<pkgVars, timeVars, variantVars>>

\* ---------------------------------------------------------- provisioning
\* A failed runtime call reported as a refusal of admission.
CtxErrorAsLimit(e) == IF e = "deadline" THEN "timeout" ELSE "limit_exceeded"

\* The error Execute returns for a failed runtime call made under execCtx.
CtxError(e) == IF e = "deadline" THEN "timeout" ELSE "generic"

\* context.WithTimeout and defer cancel(), the catalog lookup, ioutil.TempDir
\* and defer os.RemoveAll, writeCodeFile and the stdin file.
Provision(r) ==
    /\ pc[r] = "provision"
    /\ \/ /\ lang[r] \notin SupportedLanguages
          /\ Return(r, "unsupported_language")
          /\ UNCHANGED errMessage
          /\ defers' = [defers EXCEPT ![r] = Append(@, "cancel")]
          /\ UNCHANGED dir
       \/ /\ lang[r] \in SupportedLanguages
          /\ \/ /\ Return(r, "generic")           \* ioutil.TempDir fails
                /\ Message(r, "generic", "failed to create temp directory: ",
                           PathError("mkdir ", lang[r], r))
                /\ defers' = [defers EXCEPT ![r] = Append(@, "cancel")]
                /\ UNCHANGED dir
             \/ /\ Return(r, "generic")           \* a file write fails
                /\ Message(r, "generic", "failed to write code file: ",
                           PathError("open ", lang[r], r))
                /\ defers' = [defers EXCEPT ![r] =
                                Append(Append(@, "cancel"), "removeAll")]
                /\ dir' = [dir EXCEPT ![r] = TRUE]
             \/ /\ pc' = [pc EXCEPT ![r] = "create"]
                /\ defers' = [defers EXCEPT ![r] =
                                Append(Append(@, "cancel"), "removeAll")]
                /\ dir' = [dir EXCEPT ![r] = TRUE]
                /\ UNCHANGED <<err, errMessage, lang, ctxErr, waitCh>>
    /\ UNCHANGED <<concurrentLimit, executionSemaphore, executionLock,
                   refusedFull, timedOut, inspect, resultError, httpStatus, errorType,
                   container, exitCode, oomKilled>>
    /\ UNCHANGED <<inVars, gates, resultVars, respVars>>
    /\ UNCHANGED <<pkgVars, timeVars, variantVars>>

\* createAndStartContainer, first half: ContainerCreate under execCtx.  On
\* failure Execute returns, as timeout when the deadline has passed.
Create(r) ==
    /\ pc[r] = "create"
    /\ \E ok \in (IF ctxErr[r] = "none" THEN BOOLEAN ELSE {FALSE}) :
        IF ok
        THEN /\ container' = [container EXCEPT ![r] = "created"]
             /\ pc' = [pc EXCEPT ![r] = "start"]
             /\ UNCHANGED <<err, errMessage, lang, ctxErr, waitCh>>
        ELSE /\ Return(r, CtxError(ctxErr[r]))
             /\ Message(r, CtxError(ctxErr[r]), "container execution failed: ",
                        CallError(ctxErr[r]))
             /\ UNCHANGED container
    /\ UNCHANGED <<concurrentLimit, executionSemaphore, executionLock,
                   defers, refusedFull, timedOut, inspect, resultError, httpStatus,
                   errorType, dir, exitCode, oomKilled>>
    /\ UNCHANGED <<inVars, gates, resultVars, respVars>>
    /\ UNCHANGED <<pkgVars, timeVars, variantVars>>

\* An Execute that forgets to defer cleanupContainer.
DefersAfterStartNoCleanup(d, started) == d

\* The deferred calls Execute registers once createAndStartContainer has
\* returned (id, err): cleanupContainer is deferred only when err is nil.
DefersAfterStart(d, started) ==
    IF started THEN Append(d, "cleanupContainer") ELSE d

\* createAndStartContainer, second half: ContainerStart under execCtx, then
\* ContainerWait is called on the started container.
Start(r) ==
    /\ pc[r] = "start"
    /\ \E ok \in (IF ctxErr[r] = "none" THEN BOOLEAN ELSE {FALSE}) :
        /\ defers' = [defers EXCEPT ![r] = DefersAfterStart(@, ok)]
        /\ IF ok
           THEN /\ container' = [container EXCEPT ![r] = "running"]
                /\ pc' = [pc EXCEPT ![r] = "waiting"]
                /\ UNCHANGED <<err, errMessage, lang, ctxErr, waitCh>>
           ELSE /\ Return(r, CtxError(ctxErr[r]))
                /\ Message(r, CtxError(ctxErr[r]),
                           "container execution failed: ", CallError(ctxErr[r]))
                /\ UNCHANGED container
    /\ UNCHANGED <<concurrentLimit, executionSemaphore, executionLock,
                   refusedFull, timedOut, inspect, resultError, httpStatus,
                   errorType, dir, exitCode, oomKilled>>
    /\ UNCHANGED <<inVars, gates, resultVars, respVars>>
    /\ UNCHANGED <<pkgVars, timeVars, variantVars>>

\* ------------------------------------------------ the context and runtime
\* The client disconnects: r.Context() is done, and so are the handler's ctx
\* and Execute's execCtx, which derive from it.  After the wait select the
\* context is not read again.
ClientDisconnect(r) ==
    /\ pc[r] \in {"lock", "select", "provision", "create", "start", "waiting"}
    /\ ctxErr[r] = "none"
    /\ ctxErr' = [ctxErr EXCEPT ![r] = "canceled"]
    /\ UNCHANGED <<concurrentLimit, executionSemaphore, executionLock, pc, lang,
                   defers, refusedFull, timedOut, inspect>>
    /\ UNCHANGED sandboxVars
    /\ UNCHANGED outVars
    /\ UNCHANGED <<inVars, gates, resultVars, respVars>>
    /\ UNCHANGED <<pkgVars, timeVars, variantVars>>

\* The deadline of execCtx (context.WithTimeout(ctx, req.Timeout)) elapses.
DeadlineElapse(r) ==
    /\ pc[r] \in {"create", "start", "waiting"}
    /\ ctxErr[r] = "none"
    /\ ctxErr' = [ctxErr EXCEPT ![r] = "deadline"]
    /\ timedOut' = [timedOut EXCEPT ![r] = (container[r] = "running")]
    /\ UNCHANGED <<concurrentLimit, executionSemaphore, executionLock, pc, lang,
                   defers, refusedFull, inspect, dir, container, exitCode,
                   oomKilled, waitCh>>
    /\ UNCHANGED outVars
    /\ UNCHANGED <<inVars, gates, resultVars, respVars>>
    /\ UNCHANGED <<pkgVars, timeVars, variantVars>>

\* The ways a workload ends: <<exit status, killed for memory>>.
Exits == {<<0, FALSE>>, <<1, FALSE>>, <<0, TRUE>>, <<137, TRUE>>}

\* The workload ends.  ContainerWait delivers the status unless it has
\* already failed, by a runtime error or because execCtx was done.
ContainerExit(r) ==
    /\ pc[r] = "waiting"
    /\ container[r] = "running"
    /\ \E x \in Exits :
        /\ exitCode' = [exitCode EXCEPT ![r] = x[1]]
        /\ oomKilled' = [oomKilled EXCEPT ![r] = x[2]]
    /\ container' = [container EXCEPT ![r] = "exited"]
    /\ waitCh' = [waitCh EXCEPT ![r] =
                    IF @ = "empty" /\ ctxErr[r] = "none" THEN "status" ELSE @]
    /\ UNCHANGED <<concurrentLimit, executionSemaphore, executionLock, pc, lang,
                   ctxErr, defers, refusedFull, timedOut, inspect, dir>>
    /\ UNCHANGED outVars
    /\ UNCHANGED <<inVars, gates, resultVars, respVars>>
    /\ UNCHANGED <<pkgVars, timeVars, variantVars>>

\* The runtime fails the pending ContainerWait: an error on errCh.
RuntimeWaitError(r) ==
    /\ pc[r] = "waiting"
    /\ waitCh[r] = "empty"
    /\ waitCh' = [waitCh EXCEPT ![r] = "error"]
    /\ UNCHANGED <<concurrentLimit, executionSemaphore, executionLock, pc, lang,
                   ctxErr, defers, refusedFull, timedOut, inspect, dir, container, exitCode,
                   oomKilled>>
    /\ UNCHANGED outVars
    /\ UNCHANGED <<inVars, gates, resultVars, respVars>>
    /\ UNCHANGED <<pkgVars, timeVars, variantVars>>

\* ----------------------------------------------------------- supervision
\* A wait that ignores the context: ContainerWait under a background context
\* and no ctx.Done() case.
WaitCasesIgnoringCtx(delivered, ctx) ==
    (IF delivered = "error" THEN {"errCh"} ELSE {})
    \cup (IF delivered = "status" THEN {"statusCh"} ELSE {})

\* The cases of the wait select that can proceed.  ContainerWait runs under
\* execCtx: errCh carries a runtime error, or the context's error when the
\* context is done before a status was delivered.
WaitCases(delivered, ctx) ==
    (IF delivered = "error" \/ (delivered = "empty" /\ ctx # "none")
     THEN {"errCh"} ELSE {})
    \cup (IF delivered = "status" THEN {"statusCh"} ELSE {})
    \cup (IF ctx # "none" THEN {"ctxDone"} ELSE {})

\* An errCh case without the DeadlineExceeded test.
ErrChErrorUnclassified(ctx) == "generic"

\* What the errCh case of the wait select returns: timeout when execCtx.Err()
\* is DeadlineExceeded, else the wait error.
ErrChError(ctx) == IF ctx = "deadline" THEN "timeout" ELSE "generic"

\* The wait select: Execute blocks until one of its cases can proceed.
WaitSelect(r) ==
    /\ pc[r] = "waiting"
    /\ \E c \in WaitCases(waitCh[r], ctxErr[r]) :
        \/ /\ c = "errCh"
           /\ Return(r, ErrChError(ctxErr[r]))
           /\ Message(r, ErrChError(ctxErr[r]), "error waiting for container: ",
                      IF waitCh[r] = "error" THEN DaemonError
                      ELSE CallError(ctxErr[r]))
        \/ /\ c = "statusCh"
           /\ pc' = [pc EXCEPT ![r] = "collect"]
           /\ UNCHANGED <<err, errMessage, lang, ctxErr, waitCh>>
        \/ /\ c = "ctxDone"
           /\ Return(r, CtxError(ctxErr[r]))
           /\ Message(r, CtxError(ctxErr[r]), "execution canceled: ",
                      CallError(ctxErr[r]))
    /\ UNCHANGED <<concurrentLimit, executionSemaphore, executionLock,
                   defers, refusedFull, timedOut, inspect, resultError, httpStatus,
                   errorType, dir, container, exitCode, oomKilled>>
    /\ UNCHANGED <<inVars, gates, resultVars, respVars>>
    /\ UNCHANGED <<pkgVars, timeVars, variantVars>>

\* ExecutionResult.Error for an exit status.
ResultError(statusCode, language, stderrHasError) ==
    IF statusCode = 0 THEN ""
    ELSE IF language \in LanguageCompilers
         THEN (IF stderrHasError THEN "Compilation error" ELSE "Runtime error")
         ELSE "Process exited"

\* An Execute that returns a non-zero exit status as an error.
OutcomeExitIsError(answer, logsOk, statusCode, language, stderrHasError) ==
    IF answer = "oom" THEN <<"memory_limit", "">>
    ELSE IF ~logsOk \/ statusCode # 0 THEN <<"generic", "">>
    ELSE <<"nil", "">>

\* An Execute that reads the exit status before the OOM flag.
OutcomeStatusFirst(answer, logsOk, statusCode, language, stderrHasError) ==
    IF ~logsOk THEN <<"generic", "">>
    ELSE IF statusCode = 0 THEN <<"nil", "">>
    ELSE IF answer = "oom" THEN <<"memory_limit", "">>
    ELSE <<"nil", ResultError(statusCode, language, stderrHasError)>>

\* What Execute returns once the status has been received, as
\* <<error, ExecutionResult.Error>>: the OOM check on the inspection's
\* answer, then the log capture, then the exit status.
Outcome(answer, logsOk, statusCode, language, stderrHasError) ==
    IF answer = "oom" THEN <<"memory_limit", "">>
    ELSE IF ~logsOk THEN <<"generic", "">>
    ELSE <<"nil", ResultError(statusCode, language, stderrHasError)>>

\* What the workload wrote: <<stdout, stderr>>, with a stderr that has the
\* word "error" in it and one that has not, and a workload that prints the
\* line the MockExecutor makes up.
ContainerLogs ==
    {<<"42", "Segmentation fault">>, <<"42", "main.cpp:1:1: error: expected ';'">>,
     <<"Python output", "">>}

\* strings.Contains(stderr, "error") || strings.Contains(stderr, "Error") on
\* the stderr values of the model.
ContainsError(stderr) == stderr \in {"main.cpp:1:1: error: expected ';'"}

\* The ExecutionResult and the error Execute returns once the status has been
\* received: the streams and the time measured since startTime go into the
\* result when no error is returned, and the exit status is printed into a
\* non-empty ExecutionResult.Error.
ExecuteResult(answer, logsOk, statusCode, language, logs, ms) ==
    LET out == Outcome(answer, logsOk, statusCode, language,
                       ContainsError(logs[2]))
    IN  [err |-> out[1],
         error |-> out[2],
         logs |-> IF out[1] = "nil" THEN logs ELSE NoLogs,
         code |-> IF out[2] # "" THEN statusCode ELSE -1,
         ms |-> IF out[1] = "nil" THEN ms ELSE 0,
         cause |-> DaemonError]

\* ContainerInspect, getContainerLogs and the reading of the exit status
\* (statusCode, the status the wait delivered).  The streams are read unless
\* the OOM check has returned before, and go into the result once they are
\* read, together with the time measured since startTime; the exit status is
\* printed into a non-empty ExecutionResult.Error.
Collect(r) ==
    /\ pc[r] = "collect"
    /\ \E answer \in {"failed", "state"}, logsOk \in BOOLEAN,
          logs \in ContainerLogs, ms \in ElapsedMs :
        LET seen == IF answer # "state" THEN answer
                    ELSE IF oomKilled[r] THEN "oom" ELSE "clean"
            res == ExecuteResult(seen, logsOk, exitCode[r], lang[r], logs, ms)
        IN  /\ inspect' = [inspect EXCEPT ![r] = seen]
            /\ Return(r, res.err)
            /\ Message(r, res.err, "failed to get container logs: ",
                       res.cause)
            /\ resultExecTimeMs' = [resultExecTimeMs EXCEPT ![r] = res.ms]
            /\ resultError' = [resultError EXCEPT ![r] = res.error]
            /\ captured' = [captured EXCEPT ![r] =
                              IF seen # "oom" /\ logsOk THEN logs ELSE NoLogs]
            /\ resultLogs' = [resultLogs EXCEPT ![r] = res.logs]
            /\ resultErrorCode' = [resultErrorCode EXCEPT ![r] = res.code]
    /\ UNCHANGED <<concurrentLimit, executionSemaphore, executionLock,
                   defers, refusedFull, timedOut, httpStatus, errorType, dir, container,
                   exitCode, oomKilled>>
    /\ UNCHANGED <<inVars, gates, respVars>>
    /\ UNCHANGED <<pkgVars, timeVars, variantVars>>

\* ----------------------------------------------------------------- return
\* Deferred calls run in registration order.
PopDeferredFifo(d) == <<Head(d), Tail(d)>>

\* Deferred calls run last registered first: <<the call, the calls left>>.
PopDeferred(d) == <<d[Len(d)], SubSeq(d, 1, Len(d) - 1)>>

\* Execute returns: its deferred calls run, one per step.  cleanupContainer
\* stops the container (kills it when the stop fails) and removes it by
\* force; os.RemoveAll removes the scratch directory; cancel ends execCtx;
\* the call deferred first receives from the semaphore.
RunDefer(r) ==
    /\ pc[r] = "return"
    /\ defers[r] # <<>>
    /\ LET call == PopDeferred(defers[r])[1]
       IN  /\ container' = [container EXCEPT ![r] =
                              IF call = "cleanupContainer" THEN "removed" ELSE @]
           /\ dir' = [dir EXCEPT ![r] = IF call = "removeAll" THEN FALSE ELSE @]
           /\ executionSemaphore' =
                  IF call = "release" THEN executionSemaphore - 1
                  ELSE executionSemaphore
    /\ defers' = [defers EXCEPT ![r] = PopDeferred(@)[2]]
    /\ UNCHANGED <<concurrentLimit, executionLock, pc, lang, ctxErr, refusedFull,
                   timedOut, inspect, exitCode, oomKilled, waitCh>>
    /\ UNCHANGED outVars
    /\ UNCHANGED <<inVars, gates, resultVars, respVars>>
    /\ UNCHANGED <<pkgVars, timeVars, variantVars>>

\* The status code executeHandler writes for the error Execute returned.
StatusCode(e) ==
    CASE e = "nil" -> 200
      [] e = "timeout" -> 408
      [] e = "memory_limit" -> 413
      [] e = "limit_exceeded" -> 429
      [] e = "unsupported_language" -> 400
      [] OTHER -> 500

\* ExecuteResponse.ErrorType: the Type of an ExecutionError, else empty.
ErrorTypeOf(e) == IF e \in {"nil", "generic"} THEN "" ELSE e

\* ExecuteResponse.Error: ExecutionResult.Error when Execute returned no
\* error, the message of an ExecutionError (one per type here), and for any
\* other error the text "Execution error: ", which the error's own message
\* follows (respErrorDetail).
ResponseError(e, resError) ==
    IF e = "nil" THEN resError
    ELSE IF e = "generic" THEN "Execution error"
    ELSE e

\* executeHandler builds and writes the response once Execute has returned.
Respond(r) ==
    /\ pc[r] = "return"
    /\ defers[r] = <<>>
    /\ httpStatus' = [httpStatus EXCEPT ![r] = StatusCode(err[r])]
    /\ errorType' = [errorType EXCEPT ![r] = ErrorTypeOf(err[r])]
    /\ respLogs' = [respLogs EXCEPT ![r] = resultLogs[r]]
    /\ respError' = [respError EXCEPT ![r] = ResponseError(err[r], resultError[r])]
    /\ respErrorCode' = [respErrorCode EXCEPT ![r] =
                           IF err[r] = "nil" THEN resultErrorCode[r] ELSE -1]
    /\ respErrorDetail' = [respErrorDetail EXCEPT ![r] = errMessage[r]]
    /\ respExecTimeMs' = [respExecTimeMs EXCEPT ![r] = resultExecTimeMs[r]]
    /\ respContentType' = [respContentType EXCEPT ![r] = "application/json"]
    /\ pc' = [pc EXCEPT ![r] = "done"]
    /\ UNCHANGED <<concurrentLimit, executionSemaphore, executionLock, lang,
                   ctxErr, defers, refusedFull, timedOut, inspect, err,
                   errMessage, resultError>>
    /\ UNCHANGED sandboxVars
    /\ UNCHANGED <<inVars, gates, resultVars>>
    /\ UNCHANGED <<pkgVars, timeVars, variantVars>>

\* The response executeHandler writes for what Execute returned: the status
\* and the fields of ExecuteResponse, the error text in its parts (error,
\* the exit status printed into it, and the message of a plain error).
HandlerResponse(e, message, res) ==
    [status |-> StatusCode(e),
     stdout |-> res.logs[1],
     stderr |-> res.logs[2],
     error |-> ResponseError(e, res.error),
     errorCode |-> IF e = "nil" THEN res.code ELSE -1,
     errorDetail |-> message,
     errorType |-> ErrorTypeOf(e),
     executionTimeMs |-> res.ms]

\* The response request r was answered with.
Response(r) ==
    [status |-> httpStatus[r],
     stdout |-> respLogs[r][1],
     stderr |-> respLogs[r][2],
     error |-> respError[r],
     errorCode |-> respErrorCode[r],
     errorDetail |-> respErrorDetail[r],
     errorType |-> errorType[r],
     executionTimeMs |-> respExecTimeMs[r]]

\* The responses of the container-backed executor for a workload whose
\* status the wait delivered, over the ways the workload can end.
ContainerResponses ==
    {HandlerResponse(res.err,
                     IF res.err = "generic"
                     THEN <<"failed to get container logs: ">> \o res.cause
                     ELSE NoMessage,
                     res) :
        res \in {ExecuteResult(IF x[2] /\ answer = "state" THEN "oom"
                                ELSE IF answer = "state" THEN "clean"
                                ELSE answer,
                                logsOk, x[1], language, logs, ms) :
                    answer \in {"failed", "state"}, logsOk \in BOOLEAN,
                    x \in Exits, language \in SupportedLanguages,
                    logs \in ContainerLogs, ms \in ElapsedMs}}

\* The deadline Execute applies to a request without a timeout field, as the
\* requests of this specification are, in milliseconds.
AppliedDeadlineMs == DefaultExecutionSeconds * 1000

\* The steps of the flow of request r.
Flow(r) ==
    \/ Arrive(r)
    \/ Validate(r)
    \/ Lock(r)
    \/ Admit(r)
    \/ Provision(r)
    \/ Create(r)
    \/ Start(r)
    \/ WaitSelect(r)
    \/ Collect(r)
    \/ RunDefer(r)
    \/ Respond(r)

\* The events of the client, the clock and the container runtime.
Environment(r) ==
    \/ ClientDisconnect(r)
    \/ DeadlineElapse(r)
    \/ ContainerExit(r)
    \/ RuntimeWaitError(r)

Next ==
    \E r \in Requests : Flow(r) \/ Environment(r)

Spec == Init /\ [][Next]_vars

\* Every flow that can take a step eventually takes one: the Go scheduler
\* runs every runnable goroutine.
FairSpec == Spec /\ \A r \in Requests : WF_vars(Flow(r))

\* ============================================================ RateLimiter
\* A getVisitor that makes a new limiter on every call.
GetVisitorForgetful(vs, ip, b) ==
    [c \in DOMAIN vs \cup {ip} |-> IF c = ip THEN b ELSE vs[c]]

\* getVisitor: the visitors map after the call; a client without a limiter
\* gets rate.NewLimiter(limit, burst), whose bucket starts full.
GetVisitor(vs, ip, b) ==
    IF ip \in DOMAIN vs
    THEN vs
    ELSE [c \in DOMAIN vs \cup {ip} |-> IF c = ip THEN b ELSE vs[c]]

\* limiter.Allow(): whether the bucket has a token to take.
Allow(tokens) == tokens >= 1

\* The handler Limit returns, called with a request of client ip: the
\* client's limiter is looked up or made, and the request is passed to next
\* when Allow takes a token, else answered 429.
Limit(ip) ==
    /\ Len(streak[ip]) < burst + MaxExtra
    /\ LET vs == GetVisitor(visitors, ip, burst)
           ok == Allow(vs[ip])
       IN  /\ visitors' = [vs EXCEPT ![ip] = IF ok THEN @ - 1 ELSE @]
           /\ streak' = [streak EXCEPT ![ip] =
                           Append(@, IF ok THEN "next" ELSE "429")]
    /\ UNCHANGED <<burst, backToBack>>
    /\ UNCHANGED <<execVars, sweepVars, serviceVars, timeVars, variantVars>>

\* Time passes: the limiter of client ip has earned one more token.
Refill(ip) ==
    /\ ip \in DOMAIN visitors
    /\ visitors[ip] < burst
    /\ visitors' = [visitors EXCEPT ![ip] = @ + 1]
    /\ IF visitors[ip] + 1 = burst
       THEN /\ streak' = [streak EXCEPT ![ip] = <<>>]
            /\ backToBack' = [backToBack EXCEPT ![ip] = TRUE]
       ELSE /\ backToBack' = [backToBack EXCEPT ![ip] = FALSE]
            /\ UNCHANGED streak
    /\ UNCHANGED burst
    /\ UNCHANGED <<execVars, sweepVars, serviceVars, timeVars, variantVars>>

\* A RateLimiter of any burst, beside an executor that has no request.
LimiterInit ==
    /\ concurrentLimit = 1
    /\ fallbackMode = FALSE
    /\ NoRequests
    /\ NoCommand
    /\ NoTimedRun
    /\ \E b \in 1..MaxBurst : NewRateLimiter(b)
    /\ NewSanitizer(DefaultMaxCodeLength)
    /\ Serving

LimiterNext ==
    \E ip \in Clients : Limit(ip) \/ Refill(ip)

LimiterSpec == LimiterInit /\ [][LimiterNext]_vars

\* The server goes on serving requests and the clock goes on running.
\* NewRateLimiter starts no goroutine and cleanupVisitors has no caller, so
\* nothing else runs.
FairLimiterSpec == LimiterSpec /\ WF_vars(LimiterNext)

\* ------------------------------------------------- Limit and the sweep
\* The calls that hold the limiter of client ip that the visitors map holds.
HoldersOf(ip) ==
    {h \in Calls : calls[h].pc = "allow" /\ calls[h].ip = ip
                     /\ calls[h].limiter = 0}

\* The first statements of the handler Limit returns: getVisitor, under
\* rl.mu, hands back the client's limiter, a new and full one when the map
\* has none.
LimitGetVisitor(h, ip) ==
    /\ calls[h].pc = "idle"
    /\ admits[ip] < burst + MaxExtra
    /\ visitors' = GetVisitor(visitors, ip, burst)
    /\ calls' = [calls EXCEPT ![h] = [pc |-> "allow", ip |-> ip, limiter |-> 0]]
    /\ UNCHANGED <<burst, streak, backToBack, orphans, admits>>
    /\ UNCHANGED <<execVars, serviceVars, timeVars, variantVars>>

\* The rest of the handler: limiter.Allow() on the limiter getVisitor
\* returned, outside rl.mu, and next.ServeHTTP or the 429.  A limiter that is
\* in no map and that no call points to any more is garbage.
LimitAllow(h) ==
    /\ calls[h].pc = "allow"
    /\ LET ip == calls[h].ip
           k == calls[h].limiter
           ok == Allow(IF k = 0 THEN visitors[ip] ELSE orphans[k])
           last == \A g \in Calls \ {h} :
                      ~(calls[g].pc = "allow" /\ calls[g].limiter = k)
       IN  /\ IF k = 0
              THEN /\ visitors' = [visitors EXCEPT ![ip] =
                                     IF ok THEN @ - 1 ELSE @]
                   /\ UNCHANGED orphans
              ELSE /\ orphans' = [orphans EXCEPT ![k] =
                                    IF last THEN -1
                                    ELSE IF ok THEN @ - 1 ELSE @]
                   /\ UNCHANGED visitors
           /\ admits' = [admits EXCEPT ![ip] = IF ok THEN @ + 1 ELSE @]
    /\ calls' = [calls EXCEPT ![h] = NoLimitCall]
    /\ UNCHANGED <<burst, streak, backToBack>>
    /\ UNCHANGED <<execVars, serviceVars, timeVars, variantVars>>

\* The clients cleanupVisitors deletes from the map vs: those whose limiter
\* has Tokens() equal to the burst.
Swept(vs, b) == {ip \in DOMAIN vs : vs[ip] = b}

\* cleanupVisitors, under rl.mu: the full limiters are deleted from the map.
\* The calls that getVisitor gave such a limiter go on pointing to it.
CleanupVisitors ==
    LET gone == Swept(visitors, burst)
        held == {ip \in gone : HoldersOf(ip) # {}}
        free == {k \in Calls : orphans[k] = -1}
        place == CHOOSE f \in [held -> free] :
                     \A a, b \in held : a # b => f[a] # f[b]
    IN  /\ gone # {}
        /\ visitors' = [c \in DOMAIN visitors \ gone |-> visitors[c]]
        /\ orphans' = [k \in Calls |->
                         IF \E ip \in held : place[ip] = k
                         THEN burst ELSE orphans[k]]
        /\ calls' = [h \in Calls |->
                       IF \E ip \in held : h \in HoldersOf(ip)
                       THEN [calls[h] EXCEPT !.limiter = place[calls[h].ip]]
                       ELSE calls[h]]
        /\ UNCHANGED <<burst, streak, backToBack, admits>>
        /\ UNCHANGED <<execVars, serviceVars, timeVars, variantVars>>

\* Time passes: the limiter the map holds for client ip earns a token.
EarnToken(ip) ==
    /\ ip \in DOMAIN visitors
    /\ visitors[ip] < burst
    /\ visitors' = [visitors EXCEPT ![ip] = @ + 1]
    /\ admits' = [admits EXCEPT ![ip] = 0]
    /\ UNCHANGED <<burst, streak, backToBack, calls, orphans>>
    /\ UNCHANGED <<execVars, serviceVars, timeVars, variantVars>>

\* Time passes: a limiter the map no longer holds earns a token.
OrphanEarnsToken(k) ==
    /\ orphans[k] >= 0
    /\ orphans[k] < burst
    /\ orphans' = [orphans EXCEPT ![k] = @ + 1]
    /\ admits' = [c \in Clients |->
                    IF \E h \in Calls : calls[h].pc = "allow"
                                          /\ calls[h].limiter = k
                                          /\ calls[h].ip = c
                    THEN 0 ELSE admits[c]]
    /\ UNCHANGED <<burst, visitors, streak, backToBack, calls>>
    /\ UNCHANGED <<execVars, serviceVars, timeVars, variantVars>>

\* A RateLimiter whose cleanupVisitors is called while requests are served.
SweepNext ==
    \/ \E h \in Calls, ip \in Clients : LimitGetVisitor(h, ip)
    \/ \E h \in Calls : LimitAllow(h)
    \/ CleanupVisitors
    \/ \E ip \in Clients : EarnToken(ip)
    \/ \E k \in Calls : OrphanEarnsToken(k)

SweepSpec == LimiterInit /\ [][SweepNext]_vars

\* ======================================================= ExecutionService
\* The languages NewExecutionService has a container for.
Containers == {"cpp", "java", "js", "python", "go"}

\* The language and method values of the requests.
PkgLanguages == {"", "python", "go", "js", "javascript", "cpp", "java", "ruby"}
Methods == {"", "run", "test", "debug"}

\* The codes, by what SanitizeCode reads of them: the length, whether a
\* system pattern matches, whether the code has an import (none, of a
\* package on the safe list, of another), and whether a restricted pattern
\* of the language matches.  The empty code has nothing.
Codes ==
    {c \in [length : 0..(MaxCodeLen + 1), system : BOOLEAN,
            imports : {"none", "safe", "unsafe"}, restricted : BOOLEAN] :
        c.length = 0 => c = NoCode}

\* The bodies HandleExecute is called with: one that is no JSON, and the
\* JSON objects of a language, a code and a method.
HandleRequests ==
    {[decodes |-> FALSE, language |-> "", code |-> NoCode, method |-> ""]}
    \cup [decodes : {TRUE}, language : PkgLanguages, code : Codes,
          method : Methods]

\* A SanitizeCode that checks the size last.
SanitizeCodeSizeLast(code, language) ==
    IF code.system
    THEN "Prohibited system-level access detected"
    ELSE IF language \notin {"python", "go", "js"}
    THEN "unsupported language"
    ELSE IF \/ language = "python" /\ code.imports # "none"
            \/ language = "go" /\ code.imports = "unsafe"
            \/ code.restricted
    THEN "Prohibited code pattern detected"
    ELSE IF code.length > maxCodeLength
    THEN "Code length exceeds maximum limit"
    ELSE ""

\* SanitizeCode: the Message of the error it returns, "" for nil.  The size
\* check, the system patterns, then the language: the python patterns for a
\* code with an import use (?!...), which regexp does not compile, and the
\* error of matchPatterns is a rejection; go rejects an import outside its
\* safe list; every other language than python, go and js is an error.
SanitizeCode(code, language) ==
    IF code.length > maxCodeLength
    THEN "Code length exceeds maximum limit"
    ELSE IF code.system
    THEN "Prohibited system-level access detected"
    ELSE IF language \notin {"python", "go", "js"}
    THEN "unsupported language"
    ELSE IF \/ language = "python" /\ code.imports # "none"
            \/ language = "go" /\ code.imports = "unsafe"
            \/ code.restricted
    THEN "Prohibited code pattern detected"
    ELSE ""

\* A validateRequest that looks at the method before the language.
ValidateRequestMethodFirst(q) ==
    IF q.language = "" \/ q.code.length = 0 \/ q.method = ""
    THEN "the request parameters provided are invalid"
    ELSE IF q.method \notin {"run", "test"}
    THEN "the specified method is not supported for execution"
    ELSE IF q.language \notin Containers
    THEN "the specified programming language is not supported"
    ELSE ""

\* validateRequest: the error it returns, "" for nil.
ValidateRequest(q) ==
    IF q.language = "" \/ q.code.length = 0 \/ q.method = ""
    THEN "the request parameters provided are invalid"
    ELSE IF q.language \notin Containers
    THEN "the specified programming language is not supported"
    ELSE IF q.method \notin {"run", "test"}
    THEN "the specified method is not supported for execution"
    ELSE ""

\* What ExecuteCode returns, as <<output, error>>: the output of a program
\* that printed, of one that printed nothing, and the error of a failed run.
ExecuteCodeResults ==
    {<<"hello", "">>, <<"", "">>, <<"", "Execution error: exit status 1">>}

\* No call of the service is under way or behind: the service keeps nothing
\* from one call to the next, and is followed for one call.
NoCall == ~sanitized.called /\ ~handled.called /\ ~validated.called

\* A direct call of Sanitizer.SanitizeCode.
CallSanitizeCode ==
    /\ NoCall
    /\ \E code \in Codes, language \in PkgLanguages :
         sanitized' = [called |-> TRUE, code |-> code, language |-> language,
                       error |-> SanitizeCode(code, language)]
    /\ handled' = NoHandleCall
    /\ UNCHANGED <<maxCodeLength, validated>>
    /\ UNCHANGED <<execVars, limiterVars, sweepVars, timeVars, variantVars>>

\* A direct call of validateRequest.
CallValidateRequest ==
    /\ NoCall
    /\ \E q \in HandleRequests :
         /\ q.decodes
         /\ validated' = [called |-> TRUE, code |-> q.code,
                          language |-> q.language, method |-> q.method,
                          error |-> ValidateRequest(q)]
    /\ UNCHANGED <<maxCodeLength, sanitized, handled>>
    /\ UNCHANGED <<execVars, limiterVars, sweepVars, timeVars, variantVars>>

\* HandleExecute: the body is decoded, the request validated, the code
\* sanitized, and ExecuteCode called, which runs or fails.  The first two
\* rejections are written by http.Error, as plain text; the others are an
\* ExecutionResponse in JSON.
HandleExecute ==
    /\ NoCall
    /\ \E q \in HandleRequests, result \in ExecuteCodeResults :
         LET invalid == ValidateRequest(q)
             unclean == SanitizeCode(q.code, q.language)
             Answer(status, json, output, error, message, executed) ==
                 [called |-> TRUE, decodes |-> q.decodes, code |-> q.code,
                  language |-> q.language, method |-> q.method,
                  status |-> status, json |-> json, output |-> output,
                  error |-> error, statusMessage |-> message,
                  executed |-> executed]
         IN  IF ~q.decodes
             THEN /\ handled' = Answer(400, FALSE, "",
                                   "the request parameters provided are invalid",
                                   "", FALSE)
                  /\ sanitized' = NoSanitizeCall
             ELSE IF invalid # ""
             THEN /\ handled' = Answer(400, FALSE, "", invalid, "", FALSE)
                  /\ sanitized' = NoSanitizeCall
             ELSE /\ sanitized' = [called |-> TRUE, code |-> q.code,
                                   language |-> q.language, error |-> unclean]
                  /\ handled' =
                        IF unclean # ""
                        THEN Answer(400, TRUE, "", unclean,
                                    "Code Sanitization Error", FALSE)
                        ELSE IF result[2] = ""
                        THEN Answer(200, TRUE, result[1], "", "Accepted", TRUE)
                        ELSE Answer(500, TRUE, result[1], result[2],
                                    "Runtime Error", TRUE)
    /\ UNCHANGED <<maxCodeLength, validated>>
    /\ UNCHANGED <<execVars, limiterVars, sweepVars, timeVars, variantVars>>

\* An ExecutionService whose Sanitizer has any maximum, beside an executor
\* that has no request.
ServiceInit ==
    /\ concurrentLimit = 1
    /\ fallbackMode = FALSE
    /\ NoRequests
    /\ NoCommand
    /\ NoTimedRun
    /\ NewRateLimiter(DefaultBurst)
    /\ \E m \in 1..MaxCodeLen : NewSanitizer(m)
    /\ Serving

ServiceNext == CallSanitizeCode \/ CallValidateRequest \/ HandleExecute

ServiceSpec == ServiceInit /\ [][ServiceNext]_vars

\* ====================================== start-up and the execution deadline
\* The values of DEFAULT_TIMEOUT and of CONCURRENT_LIMIT: unset, no number,
\* and numbers in and out of the accepted range.
TimeoutStrings ==
    {<<>>, <<"a", "b", "c">>, <<"0">>, <<"-", "5">>, <<"5">>, <<"3", "0">>,
     <<"3", "1">>}
LimitStrings == {<<>>, <<"x">>, <<"0">>, <<"2">>}

\* The environments main starts in.
Environments ==
    [DEFAULT_TIMEOUT : TimeoutStrings, CONCURRENT_LIMIT : LimitStrings,
     docker : {"up", "noClient", "noPing"}]

\* The int64 thousands * 1000 + units.
Big(thousands, units) ==
    Add64(Mul64(Int64(thousands), Int64(1000)), Int64(units))

\* The timeout field of the request body: absent, or an integer of seconds.
\* 9223372036 is the largest number of seconds that is a Duration,
\* 9223372037 and 18446744074 are not.
TimeoutFields ==
    {<<>>, <<MinusOne64>>, <<Big(9223372, 36)>>, <<Big(9223372, 37)>>,
     <<Big(18446744, 74)>>}
    \cup {<<Int64(t)>> : t \in {0, 1, 2, 10, 29, 30, 31}}

\* ExecuteRequest.Timeout after decoding: zero when the body has no timeout.
TimeoutValue(f) == IF f = <<>> THEN Int64(0) ELSE f[1]

\* executeHandler's conversion of req.Timeout into a duration: zero unless
\* the timeout is positive, and at most MaxExecutionTime.
HandlerTimeout(t) ==
    IF Positive64(t)
    THEN IF Less64(MaxExecutionTime, Seconds(t))
         THEN MaxExecutionTime
         ELSE Seconds(t)
    ELSE Int64(0)

\* An Execute that takes the timeout as it comes.
ValidTimeoutAsGiven(d) ==
    IF Less64(MaxExecutionTime, d) THEN MaxExecutionTime ELSE d

\* Execute's validation of req.Timeout.
ValidTimeout(d) ==
    IF ~Positive64(d) THEN DefaultExecutionTime
    ELSE IF Less64(MaxExecutionTime, d) THEN MaxExecutionTime
    ELSE d

\* The variables of the requests and of the semaphore.
requestVars == <<executionSemaphore, executionLock, pc, lang, ctxErr, defers,
                 refusedFull, timedOut, inspect, sandboxVars, outVars, request,
                 invoked, unknownTag, errorBody, gates, resultVars, respVars>>

\* main up to ListenAndServe: the configuration is read from the
\* environment, the executor is made, and main exits when that fails.
Main ==
    /\ startup = "no"
    /\ LET config == ExecutorConfig(environ)
           made == NewExecutorWithConfig(config, environ.docker)
       IN  /\ configDefaultTimeout' = config.DefaultTimeout
           /\ concurrentLimit' = made.concurrentLimit
           /\ fallbackMode' = made.fallbackMode
           /\ startup' = IF made.err # "nil" THEN "exit1" ELSE "serving"
    /\ UNCHANGED <<environ, jsonTimeout, execTimeout, deadline>>
    /\ UNCHANGED <<requestVars, pkgVars, variantVars>>

\* executeHandler from the decoded request to the ExecutionRequest it
\* passes to Execute, for the timeout.
ConvertTimeout ==
    /\ startup = "serving"
    /\ execTimeout = NoDuration
    /\ \E f \in TimeoutFields :
         /\ jsonTimeout' = f
         /\ execTimeout' = HandlerTimeout(TimeoutValue(f))
    /\ UNCHANGED <<environ, startup, configDefaultTimeout, deadline>>
    /\ UNCHANGED <<execVars, pkgVars, variantVars>>

\* Execute from its entry to context.WithTimeout, for the timeout: the
\* MockExecutor of fallback mode applies no deadline.
ExecuteTimeout ==
    /\ startup = "serving"
    /\ execTimeout # NoDuration
    /\ deadline = NoDuration
    /\ deadline' = IF fallbackMode THEN NoDuration ELSE ValidTimeout(execTimeout)
    /\ UNCHANGED <<environ, startup, configDefaultTimeout, jsonTimeout,
                   execTimeout>>
    /\ UNCHANGED <<execVars, pkgVars, variantVars>>

\* main is about to start in any environment; no executor is made yet.
DeadlineInit ==
    /\ concurrentLimit = 0
    /\ fallbackMode = FALSE
    /\ NoRequests
    /\ NoCommand
    /\ NoTimedRun
    /\ NewRateLimiter(DefaultBurst)
    /\ NewSanitizer(DefaultMaxCodeLength)
    /\ environ \in Environments
    /\ startup = "no"
    /\ configDefaultTimeout = NoDuration
    /\ jsonTimeout = <<>>
    /\ execTimeout = NoDuration
    /\ deadline = NoDuration

DeadlineNext == Main \/ ConvertTimeout \/ ExecuteTimeout

DeadlineSpec == DeadlineInit /\ [][DeadlineNext]_vars

\* ========================================= files, command and settings
\* The repository has two executors: NewExecutorWithConfig's, which
\* executeHandler of the service uses, and NewExecutor's of the executor
\* package.

\* filepath.Join(elem, name): a path is the sequence of its elements.
Join(elem, name) == <<elem, name>>

\* filepath.Base(path): the last element, and "." for the empty path.
Base(path) == IF path = <<>> THEN "." ELSE path[Len(path)]

\* filepath.Ext(name) of the names writeCodeFile gives.
Ext(name) ==
    CASE name = "main.py" -> ".py"
      [] name = "main.js" -> ".js"
      [] name = "main.cpp" -> ".cpp"
      [] name = "Main.java" -> ".java"
      [] name = "main.go" -> ".go"
      [] OTHER -> ""

\* writeCodeFile: the name of the file the code is written to.
CodeFileName(language) ==
    CASE language = "python" -> "main.py"
      [] language = "javascript" -> "main.js"
      [] language = "cpp" -> "main.cpp"
      [] language = "java" -> "Main.java"
      [] language = "go" -> "main.go"
      [] OTHER -> "main.txt"

\* One argument of a command: the sequence of the parts of its text.
Word(s) == <<s>>

\* strslice.StrSlice{"/bin/sh", "-c", fmt.Sprintf(prefix + "%s < %s", ...)}.
ShellCommand(prefix, codeFile, file) ==
    <<Word("/bin/sh"), Word("-c"), <<prefix, codeFile, " < ", file>>>>

\* The command of a language without redirection.
DirectCommand(language, codeFile) ==
    CASE language = "python" -> <<Word("python3"), Word(codeFile)>>
      [] language = "javascript" -> <<Word("node"), Word(codeFile)>>
      [] language = "go" -> <<Word("go"), Word("run"), Word(codeFile)>>
      [] OTHER -> <<Word(codeFile)>>

\* The text before the code file in the shell line of a language.
ShellPrefix(language) ==
    CASE language = "python" -> "python3 "
      [] language = "javascript" -> "node "
      [] language \in {"cpp", "java"} -> "./"
      [] language = "go" -> "go run "
      [] OTHER -> ""

\* buildCommand(codeFile, stdinFile, language) of NewExecutorWithConfig's
\* executor: both files are names, as createAndStartContainer passes them.
BuildCommand(codeFile, file, language) ==
    IF file # ""
    THEN ShellCommand(ShellPrefix(language), codeFile, file)
    ELSE DirectCommand(language, codeFile)

\* buildCommand(codeFile, stdinFile) of NewExecutor's executor: the command
\* of the extension, then "<" and the file as two more arguments.
BuildCommandByExt(codeFile, file) ==
    LET ext == Ext(codeFile)
        base == CASE ext = ".py" -> <<Word("python3"), Word(codeFile)>>
                  [] ext = ".js" -> <<Word("node"), Word(codeFile)>>
                  [] ext \in {".cpp", ".java"} -> <<Word(codeFile)>>
                  [] ext = ".go" -> <<Word("go"), Word("run"), Word(codeFile)>>
                  [] OTHER -> <<>>
    IN IF file # "" THEN base \o <<Word("<"), Word(file)>> ELSE base

\* DefaultMemoryLimit, int64(DefaultCPULimit * 1e9) and DefaultPidsLimit.
DefaultMemoryLimit == 256 * 1024 * 1024
DefaultNanoCPUs == 1000000000
DefaultPidsLimit == 50

\* Resources.CPUShares of NewExecutor's executor.
CPUShares == 512

\* container.HostConfig of createAndStartContainer of either executor; a
\* field the code leaves out has Go's zero value.
HostConfigOf(b) ==
    IF b = "NewExecutorWithConfig"
    THEN [NetworkMode |-> "none", ReadonlyRootfs |-> TRUE,
          Memory |-> DefaultMemoryLimit, NanoCPUs |-> DefaultNanoCPUs,
          PidsLimit |-> DefaultPidsLimit, CPUShares |-> 0,
          MountReadOnly |-> FALSE]
    ELSE [NetworkMode |-> "none", ReadonlyRootfs |-> TRUE,
          Memory |-> 256 * 1024 * 1024, NanoCPUs |-> 0,
          PidsLimit |-> 0, CPUShares |-> CPUShares,
          MountReadOnly |-> TRUE]

\* executeHandler: the ExecutionRequest takes Language and Stdin of the
\* decoded body as they are.
BuildExecReq ==
    /\ command.build # ""
    /\ command.execReq = NoExecReq
    /\ command' = [command EXCEPT
                      !.execReq = [Language |-> command.jsonReq.language,
                                   Stdin |-> command.jsonReq.stdin]]
    /\ UNCHANGED <<execVars, pkgVars, timeVars, timer>>

\* Execute, from writeCodeFile to the stdin file: input.txt is written
\* when req.Stdin is not empty, and stdinFile stays "" otherwise.
WriteFiles ==
    /\ command.build # ""
    /\ command.execReq # NoExecReq
    /\ command.scratch = {}
    /\ LET req == command.execReq
           tempDir == TempDirOf(req.Language, 1)
       IN command' =
            IF req.Stdin # ""
            THEN [command EXCEPT
                    !.stdinFile = Join(tempDir, "input.txt"),
                    !.scratch = {CodeFileName(req.Language), "input.txt"}]
            ELSE [command EXCEPT
                    !.stdinFile = <<>>,
                    !.scratch = {CodeFileName(req.Language)}]
    /\ UNCHANGED <<execVars, pkgVars, timeVars, timer>>

\* createAndStartContainer: the command is built from the base names of
\* the two files, and the container gets the executor's settings.
CreateAndStartContainer ==
    /\ command.build # ""
    /\ command.scratch # {}
    /\ command.cmd = <<>>
    /\ LET language == command.execReq.Language
           codeFile == Join(TempDirOf(language, 1), CodeFileName(language))
           stdinFile == command.stdinFile
       IN command' =
            [command EXCEPT
               !.cmd = IF command.build = "NewExecutorWithConfig"
                       THEN BuildCommand(Base(codeFile), Base(stdinFile),
                                         language)
                       ELSE BuildCommandByExt(Base(codeFile), Base(stdinFile)),
               !.hostConfig = HostConfigOf(command.build)]
    /\ UNCHANGED <<execVars, pkgVars, timeVars, timer>>

\* One request in a supported language, with or without stdin, under
\* either executor.
CommandInit ==
    /\ concurrentLimit = 1
    /\ fallbackMode = FALSE
    /\ NoRequests
    /\ NoTimedRun
    /\ NewRateLimiter(DefaultBurst)
    /\ NewSanitizer(DefaultMaxCodeLength)
    /\ Serving
    /\ \E b \in {"NewExecutorWithConfig", "NewExecutor"},
          j \in [language : SupportedLanguages,
                 stdin : {"", "test input", "42"}] :
         command = [build |-> b, jsonReq |-> j, execReq |-> NoExecReq,
                    scratch |-> {}, stdinFile |-> <<>>, cmd |-> <<>>,
                    hostConfig |-> [NetworkMode |-> "", ReadonlyRootfs |-> FALSE,
                                   Memory |-> 0, NanoCPUs |-> 0,
                                   PidsLimit |-> 0, CPUShares |-> 0,
                                   MountReadOnly |-> FALSE]]

CommandNext == BuildExecReq \/ WriteFiles \/ CreateAndStartContainer

CommandSpec == CommandInit /\ [][CommandNext]_vars

\* ============================== the executor that times out with a timer
\* Execute of NewExecutor's executor under executeHandler that gives the
\* request context a deadline of 15 s and the request a Timeout of 15 s.
\* One request is followed; a Docker call made with a context that is done
\* fails without reaching the daemon.

\* Execute returns err to the handler: the deferred calls run next.
TimerReturn(t, e) == [t EXCEPT !.err = e, !.pc = "return"]

\* A Docker call made with ctx fails when ctx is done, and may fail when
\* it is not.
TimerCallOutcomes == IF timer.ctx # "none" THEN {"fails"} ELSE {"ok", "fails"}

\* executeHandler, lines 115-128: ctx gets its deadline, and Execute is
\* called with Timeout 15 s.
TimerHandle ==
    /\ timer.pc = "handler"
    /\ timer' = [timer EXCEPT !.pc = "execute"]
    /\ UNCHANGED <<execVars, pkgVars, timeVars, command>>

\* The client goes away: r.Context() is cancelled, and ctx with it.
TimerClientGone ==
    /\ timer.pc \notin {"idle", "done"}
    /\ timer.ctx = "none"
    /\ timer' = [timer EXCEPT !.ctx = "canceled"]
    /\ UNCHANGED <<execVars, pkgVars, timeVars, command>>

\* 15 s have passed since the handler made ctx: ctx is done with
\* DeadlineExceeded unless it was cancelled before.
TimerContextDeadline ==
    /\ timer.pc \notin {"idle", "handler", "done"}
    /\ timer.clock = "early"
    /\ timer' = [timer EXCEPT
                   !.clock = "ctxDue",
                   !.ctx = IF @ = "none" THEN "deadline" ELSE @]
    /\ UNCHANGED <<execVars, pkgVars, timeVars, command>>

\* time.After(req.Timeout) of the select delivers: 15 s have passed since
\* Execute reached the select, which is after the handler made ctx.
TimerFires ==
    /\ timer.pc = "select"
    /\ timer.clock = "ctxDue"
    /\ timer' = [timer EXCEPT !.clock = "timerDue"]
    /\ UNCHANGED <<execVars, pkgVars, timeVars, command>>

\* Execute, lines 174-214: the language lookup, the scratch directory with
\* its deferred removal, the code file and the stdin file.
TimerProvision ==
    /\ timer.pc = "execute"
    /\ IF timer.lang \notin SupportedLanguages
       THEN timer' = [timer EXCEPT !.err = "unsupported language",
                                   !.pc = "respond"]
       ELSE \E tempDir, write \in {"ok", "fails"} :
              IF tempDir = "fails"
              THEN timer' = [timer EXCEPT
                               !.err = "failed to create temp directory",
                               !.pc = "respond"]
              ELSE LET made == [timer EXCEPT !.dir = TRUE,
                                             !.defers = <<"RemoveAll">>]
                   IN timer' = IF write = "fails"
                               THEN TimerReturn(made, "failed to write file")
                               ELSE [made EXCEPT !.pc = "create"]
    /\ UNCHANGED <<execVars, pkgVars, timeVars, command>>

\* createAndStartContainer, ContainerCreate(ctx, ...).
TimerCreate ==
    /\ timer.pc = "create"
    /\ \E o \in TimerCallOutcomes :
         timer' = IF o = "fails"
                  THEN TimerReturn(timer, "container execution failed")
                  ELSE [timer EXCEPT !.container = "created", !.pc = "start"]
    /\ UNCHANGED <<execVars, pkgVars, timeVars, command>>

\* createAndStartContainer, ContainerStart(ctx, ...); then Execute defers
\* cleanupContainer(ctx, containerID) and calls ContainerWait(ctx, ...).
\* When the start fails Execute returns and nothing is deferred.
TimerStart ==
    /\ timer.pc = "start"
    /\ \E o \in TimerCallOutcomes :
         timer' = IF o = "fails"
                  THEN TimerReturn(timer, "container execution failed")
                  ELSE [timer EXCEPT
                          !.container = "running",
                          !.defers = <<"cleanupContainer">> \o @,
                          !.wait = "waiting",
                          !.pc = "select"]
    /\ UNCHANGED <<execVars, pkgVars, timeVars, command>>

\* The program in the container ends.
TimerContainerExits ==
    /\ timer.pc # "idle"
    /\ timer.container = "running"
    /\ \E code \in {0, 1} :
         timer' = [timer EXCEPT !.container = "exited", !.exit = code]
    /\ UNCHANGED <<execVars, pkgVars, timeVars, command>>

\* ContainerWait delivers: the status once the container has exited, or
\* the error of ctx once ctx is done.
TimerWaitDelivers ==
    /\ timer.pc # "idle"
    /\ timer.wait = "waiting"
    /\ \/ /\ timer.container = "exited"
          /\ timer' = [timer EXCEPT !.wait = "status"]
       \/ /\ timer.ctx # "none"
          /\ timer' = [timer EXCEPT !.wait = "error"]
    /\ UNCHANGED <<execVars, pkgVars, timeVars, command>>

\* The cases of Execute's select that can proceed.
TimerSelectCases ==
    (IF timer.wait = "error" THEN {"errCh"} ELSE {})
    \cup (IF timer.wait = "status" THEN {"statusCh"} ELSE {})
    \cup (IF timer.clock = "timerDue" THEN {"timer"} ELSE {})

\* Execute's select, lines 226-235: one of the cases that can proceed.
TimerSelect ==
    /\ timer.pc = "select"
    /\ \E c \in TimerSelectCases :
         timer' = CASE c = "errCh" ->
                         TimerReturn(timer, "error waiting for container")
                    [] c = "statusCh" -> [timer EXCEPT !.pc = "logs"]
                    [] c = "timer" -> TimerReturn(timer, "execution timed out")
    /\ UNCHANGED <<execVars, pkgVars, timeVars, command>>

\* getContainerLogs(ctx, containerID) and the result, lines 238-253.
TimerLogs ==
    /\ timer.pc = "logs"
    /\ \E o \in TimerCallOutcomes :
         timer' = IF o = "fails"
                  THEN TimerReturn(timer, "failed to get container logs")
                  ELSE TimerReturn(timer, "")
    /\ UNCHANGED <<execVars, pkgVars, timeVars, command>>

\* The container after cleanupContainer's two calls made with a context in
\* state ctx: ContainerStop and ContainerRemove(Force) reach the daemon
\* only when ctx is not done, and their errors are dropped.
CleanedWith(ctx, c) == IF ctx = "none" THEN "removed" ELSE c

\* The deferred cleanupContainer(ctx, containerID), with the ctx of the
\* request.
TimerCleanupContainer ==
    /\ timer.pc = "return"
    /\ timer.defers # <<>>
    /\ Head(timer.defers) = "cleanupContainer"
    /\ timer' = [timer EXCEPT
                   !.container = CleanedWith(timer.ctx, @),
                   !.defers = Tail(@)]
    /\ UNCHANGED <<execVars, pkgVars, timeVars, command>>

\* The deferred os.RemoveAll(tempDir).
TimerRemoveAll ==
    /\ timer.pc = "return"
    /\ timer.defers # <<>>
    /\ Head(timer.defers) = "RemoveAll"
    /\ timer' = [timer EXCEPT !.dir = FALSE, !.defers = Tail(@)]
    /\ UNCHANGED <<execVars, pkgVars, timeVars, command>>

\* Execute has returned to executeHandler.
TimerReturned ==
    \/ timer.pc \in {"respond", "done"}
    \/ timer.pc = "return" /\ timer.defers = <<>>

\* executeHandler, lines 129-158: 500 with the error, or 200 with the
\* result.
TimerRespond ==
    /\ TimerReturned
    /\ timer.pc # "done"
    /\ timer' = [timer EXCEPT !.pc = "done",
                              !.status = IF timer.err # "" THEN 500 ELSE 200]
    /\ UNCHANGED <<execVars, pkgVars, timeVars, command>>

\* One decoded request with a language, at the handler's WithTimeout.
TimerInit ==
    /\ concurrentLimit = 1
    /\ fallbackMode = FALSE
    /\ NoRequests
    /\ NoCommand
    /\ NewRateLimiter(DefaultBurst)
    /\ NewSanitizer(DefaultMaxCodeLength)
    /\ Serving
    /\ \E language \in Languages :
         timer = [lang |-> language, pc |-> "handler", ctx |-> "none",
                  clock |-> "early", container |-> "none", exit |-> -1,
                  wait |-> "empty", err |-> "", defers |-> <<>>,
                  dir |-> FALSE, status |-> 0]

TimerNext ==
    \/ TimerHandle
    \/ TimerClientGone
    \/ TimerContextDeadline
    \/ TimerFires
    \/ TimerProvision
    \/ TimerCreate
    \/ TimerStart
    \/ TimerContainerExits
    \/ TimerWaitDelivers
    \/ TimerSelect
    \/ TimerLogs
    \/ TimerCleanupContainer
    \/ TimerRemoveAll
    \/ TimerRespond

TimerSpec == TimerInit /\ [][TimerNext]_vars

\* ================================================================ claims
\* The requests that hold a semaphore slot: acquired, release still deferred.
Holders == {r \in Requests : \E i \in 1..Len(defers[r]) : defers[r][i] = "release"}

\* Execute has returned to the handler: no deferred call is left to run.
Returned(r) == pc[r] = "done" \/ (pc[r] = "return" /\ defers[r] = <<>>)

\* The request's container exists in the runtime.
ContainerExists(r) == container[r] \in {"created", "running", "exited"}

\* The request's container was started and is not removed.
StartedContainerExists(r) == container[r] \in {"running", "exited"}

\* C1: under any interleaving of Execute calls, the number of requests that
\* hold a semaphore slot never exceeds the configured limit.
C1_InFlightWithinLimit ==
    /\ Cardinality(Holders) <= concurrentLimit
    /\ executionSemaphore <= concurrentLimit

\* C1 witness: every slot is held and a further request was refused.
C1_Witness ==
    /\ Cardinality(Holders) = concurrentLimit
    /\ \E r \in Requests : refusedFull[r]

\* C2: when all C slots are held by calls still in flight, a further call
\* does not enter supervision and returns limit_exceeded.
C2_ExtraCallIsLimitExceeded ==
    [][\A r \in Requests :
         (pc[r] = "select" /\ pc'[r] # "select"
            /\ Cardinality(Holders) = concurrentLimit)
         => (err'[r] = "limit_exceeded"
               /\ Cardinality(Holders') = concurrentLimit)]_vars

C5_ContainersWithinHeldSlots ==
    Cardinality({r \in Requests : ContainerExists(r)}) <= executionSemaphore

\* C6: admission never blocks: the select of a request can always proceed,
\* the lock is held only by a request at its select, and with every slot
\* held the select returns without taking a slot.
C6_AdmissionNeverBlocks ==
    /\ [](\A r \in Requests : pc[r] = "select" => ENABLED Admit(r))
    /\ [](executionLock # 0 => pc[executionLock] = "select")
    /\ [][\A r \in Requests :
            (pc[r] = "select" /\ pc'[r] # "select"
               /\ executionSemaphore = concurrentLimit)
            => (pc'[r] = "return" /\ r \notin Holders'
                  /\ executionSemaphore' = executionSemaphore)]_vars

\* C6 witness: a request was refused and every slot is still held.
C6_Witness ==
    \E r \in Requests :
        /\ Returned(r)
        /\ refusedFull[r]
        /\ executionSemaphore = concurrentLimit

C8_DeadlineIsTimeout ==
    \A r \in Requests :
        timedOut[r] =>
            /\ Returned(r) => err[r] = "timeout"
            /\ pc[r] = "done" => (httpStatus[r] = 408 /\ errorType[r] = "timeout")

\* C8 witness: a timed-out execution was answered.
C8_Witness ==
    \E r \in Requests :
        pc[r] = "done" /\ timedOut[r] /\ httpStatus[r] = 408

C10_RefusedIsLimitExceeded ==
    \A r \in Requests :
        (pc[r] = "done" /\ refusedFull[r])
        => (httpStatus[r] = 429 /\ errorType[r] = "limit_exceeded")

\* C11: a decodable POST with code and a language tag outside the catalog
\* is answered 400 with error_type unsupported_language, whether the
\* executor runs containers or is in fallback mode.
C11_UnknownTagIsUnsupportedLanguage ==
    \A r \in Requests :
        (pc[r] = "done" /\ invoked[r] /\ unknownTag[r])
        => (httpStatus[r] = 400 /\ errorType[r] = "unsupported_language")

\* C12: a request with an unknown language tag is rejected before admission:
\* its admission select never gives it a slot, and Execute returns
\* unsupported_language for it whether or not a slot is free.
C12_UnknownTagRejectedBeforeAdmission ==
    [][\A r \in Requests :
         (pc[r] = "select" /\ pc'[r] # "select"
            /\ lang[r] \notin SupportedLanguages)
         => (r \notin Holders' /\ err'[r] = "unsupported_language")]_vars

\* The request was answered by http.Error: method, content type, body or a
\* missing field.
BadRequest(r) == errorBody[r] # ""

\* The request has nothing of the sandbox: no slot, no deferred call, no
\* scratch directory, no container.
HoldsNothing(r) ==
    /\ r \notin Holders
    /\ defers[r] = <<>>
    /\ ~dir[r]
    /\ container[r] = "none"

\* C13: a request that ends as bad_request or as limit_exceeded never holds
\* a semaphore slot and never has a scratch directory or a container: it
\* has none up to the step that rejects it, that step leaves the semaphore,
\* the directories and the containers as they were, and it has none after.
C13_RejectedTouchesNothing ==
    /\ [](\A r \in Requests :
            (pc[r] \in {"idle", "handler", "lock", "select"}
               \/ BadRequest(r) \/ err[r] = "limit_exceeded")
            => HoldsNothing(r))
    /\ [][\A r \in Requests :
            ((BadRequest(r)' /\ ~BadRequest(r))
               \/ (err'[r] = "limit_exceeded" /\ err[r] # "limit_exceeded"))
            => /\ executionSemaphore' = executionSemaphore
               /\ Holders' = Holders
               /\ dir' = dir
               /\ container' = container]_vars

\* C13 witness: a request was refused as limit_exceeded while every slot was
\* held, and the slots are all still held.
C13_Witness ==
    \E r \in Requests :
        /\ pc[r] = "done"
        /\ httpStatus[r] = 429
        /\ err[r] = "limit_exceeded"
        /\ executionSemaphore = concurrentLimit

\* C14: the method is checked before the content type: a request that is
\* not a POST is answered 405 whatever its content type and body, a POST
\* whose content type is not exactly application/json is answered 415
\* whatever its body, and neither reaches the executor.
C14_MethodThenContentType ==
    /\ [][\A r \in Requests :
            (pc[r] = "handler" /\ pc'[r] # "handler") =>
                /\ request[r].method # "POST"
                     => (httpStatus'[r] = 405 /\ pc'[r] = "done" /\ ~invoked'[r])
                /\ (request[r].method = "POST"
                      /\ request[r].contentType # "application/json")
                     => (httpStatus'[r] = 415 /\ pc'[r] = "done" /\ ~invoked'[r])]_vars
    /\ [](\A r \in Requests :
            httpStatus[r] \in {405, 415}
            => (pc[r] = "done" /\ ~invoked[r] /\ gates[r] = <<>> /\ err[r] = "nil"))

\* C14 witness: one request was answered 405 and another 415.
C14_Witness ==
    \E r1, r2 \in Requests :
        /\ httpStatus[r1] = 405
        /\ httpStatus[r2] = 415
        /\ ~invoked[r1]
        /\ ~invoked[r2]

\* C15: a POST with content type application/json is answered 400 and does
\* not reach the executor when its body does not decode, has an unknown
\* field, or has an empty or absent code or language; when the body decodes
\* and has neither, the text is the one for the missing code.
C15_MissingFieldsAre400 ==
    [][\A r \in Requests :
         (pc[r] = "handler" /\ pc'[r] # "handler"
            /\ request[r].method = "POST"
            /\ request[r].contentType = "application/json") =>
             LET q == request[r]
                 decodes == q.syntaxOk /\ ~q.unknownField
             IN  /\ (~decodes \/ FieldValue(q.code) = ""
                       \/ FieldValue(q.language) = "")
                      => (httpStatus'[r] = 400 /\ pc'[r] = "done"
                            /\ ~invoked'[r] /\ errorBody'[r] # "")
                 /\ (decodes /\ FieldValue(q.code) = ""
                       /\ FieldValue(q.language) = "")
                      => errorBody'[r] = "Missing 'code' field in request"
                 /\ (decodes /\ FieldValue(q.code) # ""
                       /\ FieldValue(q.language) # "")
                      => (invoked'[r] /\ httpStatus'[r] = 0)]_vars

\* C15 witness: one request was answered 400 for its missing code and
\* another for its missing language, and neither reached the executor.
C15_Witness ==
    \E r1, r2 \in Requests :
        /\ httpStatus[r1] = 400
        /\ errorBody[r1] = "Missing 'code' field in request"
        /\ httpStatus[r2] = 400
        /\ errorBody[r2] = "Missing 'language' field in request"
        /\ ~invoked[r1]
        /\ ~invoked[r2]

\* Execute read the exit status and the streams of a workload that ended
\* with a non-zero status and was not killed for memory.
NonZeroExit(r) ==
    /\ inspect[r] \in {"clean", "failed"}
    /\ captured[r] # NoLogs
    /\ exitCode[r] # 0
    /\ ~oomKilled[r]

\* C16: a workload that ends with a non-zero status, with no timeout, OOM
\* kill or runtime failure, makes Execute return no error and a result with
\* the captured streams and a non-empty Error naming the status; the
\* handler answers 200 with the same streams and error.
C16_NonZeroExitIs200 ==
    \A r \in Requests :
        NonZeroExit(r) =>
            /\ Returned(r) =>
                  /\ err[r] = "nil"
                  /\ resultLogs[r] = captured[r]
                  /\ resultError[r] # ""
                  /\ resultErrorCode[r] = exitCode[r]
            /\ pc[r] = "done" =>
                  /\ httpStatus[r] = 200
                  /\ respLogs[r] = captured[r]
                  /\ respError[r] # ""
                  /\ respErrorCode[r] = exitCode[r]

\* C16 witness: a workload that exited with status 1 was answered 200 with
\* its stderr and an error naming the status.
C16_Witness ==
    \E r \in Requests :
        /\ pc[r] = "done"
        /\ NonZeroExit(r)
        /\ httpStatus[r] = 200
        /\ respLogs[r][2] = "Segmentation fault"
        /\ respErrorCode[r] = 1

\* C17: the non-zero exit of a compiled language whose stderr has the word
\* "error" (the case Execute words as a compilation error) is answered with
\* error_type compile_error, and the non-zero exit of an interpreted
\* language (the case Execute words as "Process exited") with error_type
\* runtime_error.
C17_ExitIsClassified ==
    \A r \in Requests :
        (pc[r] = "done" /\ NonZeroExit(r)) =>
            /\ resultError[r] = "Compilation error"
                 => errorType[r] = "compile_error"
            /\ resultError[r] = "Process exited"
                 => errorType[r] = "runtime_error"

\* The request has passed gate a, then gate b, then gate c.
PassedInOrder(r, a, b, c) ==
    \E i, j, k \in 1..Len(gates[r]) :
        /\ i < j
        /\ j < k
        /\ gates[r][i] = a
        /\ gates[r][j] = b
        /\ gates[r][k] = c

\* C19: a request that reaches sandbox provisioning has passed the static
\* screener, then the per-client rate limit, then the semaphore.
C19_ScreenedLimitedAdmitted ==
    \A r \in Requests :
        pc[r] \in {"provision", "create", "start", "waiting", "collect"}
        => PassedInOrder(r, "screen", "rateLimit", "semaphore")

\* C18: of the requests a client sends back to back on a full bucket, with
\* no token refilled in between, the first burst are passed to the wrapped
\* handler and every later one is answered 429 without it being called.
C18_BurstThenRefused ==
    \A c \in Clients :
        backToBack[c] =>
            \A i \in 1..Len(streak[c]) :
                streak[c][i] = (IF i <= burst THEN "next" ELSE "429")

\* C18 witness: a client has sent burst + MaxExtra requests back to back and
\* the last MaxExtra of them were answered 429.
C18_Witness ==
    \E c \in Clients :
        /\ backToBack[c]
        /\ Len(streak[c]) = burst + MaxExtra
        /\ streak[c][burst + 1] = "429"
        /\ visitors[c] = 0

\* C20: SanitizeCode returns the "length exceeds" error for every code
\* longer than the maximum, whatever its language and content, and
\* HandleExecute does not call ExecuteCode for a request with such a code.
C20_LongCodeIsRejected ==
    /\ (sanitized.called /\ sanitized.code.length > maxCodeLength)
         => sanitized.error = "Code length exceeds maximum limit"
    /\ (handled.called /\ handled.code.length > maxCodeLength)
         => /\ ~handled.executed
            /\ ValidateRequest(handled) = ""
                 => /\ handled.error = "Code length exceeds maximum limit"
                    /\ handled.statusMessage = "Code Sanitization Error"

\* C20 witness: HandleExecute has rejected for its length a valid request
\* whose code also matches a system pattern.
C20_Witness ==
    /\ handled.called
    /\ handled.code.length > maxCodeLength
    /\ handled.code.system
    /\ handled.error = "Code length exceeds maximum limit"
    /\ ~handled.executed

\* The code is benign: it is not empty and within the size cap, matches no
\* system pattern and no restricted pattern of its language, and imports
\* nothing outside the safe list.
Benign(code) ==
    /\ code.length \in 1..maxCodeLength
    /\ ~code.system
    /\ ~code.restricted
    /\ code.imports # "unsafe"

\* C21: for each of the tags python, javascript, cpp, java and go,
\* SanitizeCode returns nil for a benign program.
C21_BenignIsAccepted ==
    (sanitized.called /\ Benign(sanitized.code)
       /\ sanitized.language \in {"python", "javascript", "cpp", "java", "go"})
    => sanitized.error = ""

\* C22: HandleExecute answers every request with status 200; a request with
\* an unsupported language and one whose code the sanitizer rejects get a
\* JSON body with a non-empty error and an empty output.
C22_EveryAnswerIs200 ==
    handled.called =>
        /\ handled.status = 200
        /\ ((handled.decodes
                /\ ValidateRequest(handled) =
                      "the specified programming language is not supported")
              \/ (sanitized.called /\ sanitized.error # ""))
             => (handled.json /\ handled.error # "" /\ handled.output = "")

\* C23: validateRequest returns ErrInvalidRequest when language, code or
\* method is empty; else ErrLanguageNotSupported when the language has no
\* container; else ErrMethodNotSupported when the method is neither run nor
\* test; else nil.
C23_ValidatePrecedence ==
    validated.called =>
        LET empty == validated.language = "" \/ validated.code.length = 0
                        \/ validated.method = ""
            known == validated.language \in {"cpp", "java", "js", "python", "go"}
            runnable == validated.method \in {"run", "test"}
        IN  /\ empty
              => validated.error = "the request parameters provided are invalid"
            /\ (~empty /\ ~known)
              => validated.error =
                    "the specified programming language is not supported"
            /\ (~empty /\ known /\ ~runnable)
              => validated.error =
                    "the specified method is not supported for execution"
            /\ (~empty /\ known /\ runnable) => validated.error = ""

\* C23 witness: a request with a language that has no container and a method
\* that is not supported was answered for its language.
C23_Witness ==
    /\ validated.called
    /\ validated.language = "ruby"
    /\ validated.method = "debug"
    /\ validated.code.length > 0
    /\ validated.error = "the specified programming language is not supported"

\* C24: every response produced in fallback mode carries a marker that tells
\* it from a response of a container execution: no response of the
\* MockExecutor is equal, field for field, to a response the container-backed
\* executor can give.
C24_FallbackIsMarked ==
    \A r \in Requests :
        (fallbackMode /\ invoked[r] /\ pc[r] = "done")
        => Response(r) \notin ContainerResponses

\* C25: when the container runtime cannot be reached at start-up, the
\* construction of the executor can fail: for some configuration of the
\* environment NewExecutorWithConfig returns an error, so that main exits.
C25_StartupCanFail ==
    environ.docker # "up" =>
        \E e \in Environments :
            /\ e.docker = environ.docker
            /\ NewExecutorWithConfig(ExecutorConfig(e), e.docker).err # "nil"

C27_TimeoutReportsElapsed ==
    \A r \in Requests :
        (pc[r] = "done" /\ errorType[r] = "timeout" /\ timedOut[r])
        => respExecTimeMs[r] >= AppliedDeadlineMs

\* C28: for a request without a timeout the deadline applied to the sandbox
\* is the DEFAULT_TIMEOUT of the environment, for every valid value of it
\* (1 to 30 seconds).
C28_DefaultComesFromEnv ==
    (deadline # NoDuration /\ jsonTimeout = <<>>
       /\ Atoi(environ.DEFAULT_TIMEOUT)[1]
       /\ Atoi(environ.DEFAULT_TIMEOUT)[2] \in 1..30)
    => deadline = Seconds(Int64(Atoi(environ.DEFAULT_TIMEOUT)[2]))

\* C29: the response to an internal failure of the container-backed executor
\* does not depend on the underlying cause: two requests that failed at the
\* same call (the same fixed text of the error) were sent the same response,
\* whatever path, container or runtime error the failed call reported.
C29_ErrorTextIgnoresCause ==
    \A r1, r2 \in Requests :
        (/\ ~fallbackMode
         /\ pc[r1] = "done" /\ pc[r2] = "done"
         /\ err[r1] = "generic" /\ err[r2] = "generic"
         /\ Head(errMessage[r1]) = Head(errMessage[r2]))
        => Response(r1) = Response(r2)

\* C30: every response of /api/execute, the 405, 415 and 400 rejections
\* included, is sent as JSON: a body of the response schema.
C30_EveryBodyIsJson ==
    \A r \in Requests :
        pc[r] = "done" => respContentType[r] = "application/json"

\* C34: when ContainerCreate succeeds and ContainerStart fails, the created
\* container is removed before Execute returns, and the scratch directory
\* and the semaphore slot are released as well: a returned Execute leaves no
\* container that was created and not started.
C34_StartFailureRemovesContainer ==
    \A r \in Requests :
        Returned(r) => /\ container[r] # "created"
                       /\ ~dir[r]
                       /\ r \notin Holders

\* C37: Execute returns the error type "timeout" only when the execution
\* deadline has elapsed; a request whose context is already cancelled when
\* it reaches the admission select is not reported as timeout and is not
\* started.
C37_TimeoutOnlyAfterDeadline ==
    [][\A r \in Requests :
         /\ (err[r] # "timeout" /\ err'[r] = "timeout")
              => ctxErr[r] = "deadline"
         /\ (pc[r] = "select" /\ pc'[r] # "select" /\ ctxErr[r] = "canceled")
              => pc'[r] # "provision"]_vars

\* C38: executionLock is released on every branch of the admission select:
\* a request holds it only at its select, with no slot, directory or
\* container of its own, and never when Execute returns; the holder's
\* select can always proceed, whatever the other requests are doing.
C38_LockOnlyAcrossSelect ==
    /\ [](\A r \in Requests :
            executionLock = r
            => /\ pc[r] = "select"
               /\ r \notin Holders /\ ~dir[r] /\ ~ContainerExists(r)
               /\ SelectCases(executionSemaphore, concurrentLimit,
                              ctxErr[r] # "none") # {})
    /\ [][\A r \in Requests :
            (pc[r] = "select" /\ pc'[r] # "select") => executionLock' = 0]_vars

\* C38 witness: a request takes the lock and every case of its select has
\* been seen to release it while the sandbox of another request is running.
C38_Witness ==
    \E r1, r2 \in Requests :
        /\ pc[r1] = "waiting" /\ container[r1] = "running"
        /\ pc[r2] = "return" /\ refusedFull[r2]
        /\ executionLock = 0

\* C39: for every positive timeout of the request the deadline applied to
\* the sandbox is min(timeout, 30) seconds, also when timeout * 10^9 does
\* not fit a signed 64-bit integer.
C39_DeadlineIsMinOfTimeoutAndMax ==
    LET t == TimeoutValue(jsonTimeout)
    IN  (deadline # NoDuration /\ Positive64(t))
        => deadline = IF Less64(Int64(MaxExecutionSeconds), t)
                      THEN MaxExecutionTime
                      ELSE Seconds(t)

\* C32: a rate bucket that is idle, its token count back at the full
\* burst, is eventually removed from the visitors table.
C32_IdleBucketIsSwept ==
    \A c \in Clients :
        (c \in DOMAIN visitors /\ visitors[c] = burst)
        ~> (c \notin DOMAIN visitors)

\* C36: under any interleaving of cleanupVisitors with requests, a client
\* is passed to next at most burst times while none of its limiters earns a
\* token.
C36_SweepGivesNoFreshAllowance ==
    \A c \in Clients : admits[c] <= burst

\* C31: every container the executor creates, for every language and with
\* or without stdin, has network mode none, a read-only root file system,
\* a memory cap of 256 MiB, a CPU cap of 1.0 core and a pids cap of 50.
C31_ContainersAreConfined ==
    command.cmd # <<>> =>
        /\ command.hostConfig.NetworkMode = "none"
        /\ command.hostConfig.ReadonlyRootfs
        /\ command.hostConfig.Memory = DefaultMemoryLimit
        /\ command.hostConfig.NanoCPUs = DefaultNanoCPUs
        /\ command.hostConfig.PidsLimit = DefaultPidsLimit

\* C33: under NewExecutorWithConfig's executor the handler passes stdin
\* unchanged; a non-empty stdin is written to input.txt and the language's
\* command runs through /bin/sh -c with "< input.txt"; with an empty stdin
\* no input.txt is written and the command is the direct argv, no shell.
C33_StdinDecidesCommand ==
    (command.build = "NewExecutorWithConfig" /\ command.cmd # <<>>) =>
        LET language == command.jsonReq.language
            stdin == command.jsonReq.stdin
            codeFile == CodeFileName(language)
        IN /\ command.execReq.Stdin = stdin
           /\ stdin # "" =>
                  /\ "input.txt" \in command.scratch
                  /\ command.cmd = ShellCommand(ShellPrefix(language),
                                                codeFile, "input.txt")
           /\ stdin = "" =>
                  /\ "input.txt" \notin command.scratch
                  /\ command.cmd = DirectCommand(language, codeFile)

\* C35: under the executor that times out with a timer, called by the
\* handler that gives ctx the same 15 s, the ctx of the deferred
\* cleanupContainer is still usable when the timeout path runs, and once
\* Execute has returned "execution timed out" the container is stopped
\* and removed.
C35_TimeoutStopsAndRemoves ==
    timer.err = "execution timed out" =>
        /\ timer.ctx = "none"
        /\ TimerReturned => timer.container = "removed"

====
